---- MODULE Spec2Model ----
(***************************************************************************)
(* The task graph engine of tasks.ts (src/unnamed/part_004): task keys,    *)
(* the default storage, toposort, dependencyLayers and the asynchronous    *)
(* Task.persist / Task.result, as frames of calls whose awaits are the     *)
(* points where the calls interleave.                                      *)
(***************************************************************************)
EXTENDS Integers, Sequences, FiniteSets, TLC

VARIABLES
    tasks,      \* the Task objects: fn, args, key (readonly fields)
    entries,    \* the Task objects the caller calls result() on
    tstore,     \* Task.storage of each object: a storage id, 0 = undefined
    stores,     \* the TaskStorage instances: id -> (key -> value)
    explicit,   \* number of storages supplied by the caller (the others are default storages)
    frames,     \* the calls of Task.result / Task.persist, in order of their start
    faults,     \* failures of fn or of storage.set the environment may still inject
    aborted,    \* the AbortSignal the caller passes to result(): signal.aborted
    readFaults, \* failures of storage.get, other than key-not-found, still to come
    hargs,      \* hashing: the argument lists of two tasks of one function
    hkeys,      \* hashing: the keys the Task constructor derived for them
    op,         \* the last call of a synchronous Task method and what it returned
    callers,    \* what the callers of the behaviour call: "result", "memoize" or "ensure"
    mcond,      \* memoize: the options hold a condition
    mcalls,     \* memoize: the calls of the memoized function, in order of their start
    mstore,     \* memoize: the storage behind options.get / options.set: key -> value
    mlast,      \* memoize: the last write the storage has completed for a key
    pstore,     \* ObjectStorage: the provider's objects: key -> data and validity
    ecalls,     \* ObjectStorage: the calls of ensure, in order of their start
    insts,      \* ObjectStorage: the instances: provider, constraints, transforms
    objects,    \* ObjectStorage: the provider's files: key -> buffer and attributes
    now,        \* Date.now()
    ocalls,     \* ObjectStorage: the calls of get, set and deleteInvalidEntries
    fargs,      \* the arguments of the call of a function without side effects
    fres,       \* what that call returned
    nameRegistry \* the names of the functions of the tasks with derived keys

\* the variables of the instances of ObjectStorage and of their provider
objectVars == <<insts, objects, now, ocalls>>

\* the variables of the calls of functions without side effects
pureVars == <<fargs, fres>>

\* the registry of function names
registryVars == <<nameRegistry>>

\* the variables of the object storage
ensureVars == <<pstore, ecalls>>

\* the variables of the memoized function
memoVars == <<mcond, mcalls, mstore, mlast>>

\* the variables the calls of Task.result / Task.persist leave alone
others == <<hargs, hkeys, op, callers, memoVars, ensureVars, objectVars, pureVars, registryVars>>

\* the variables of the task graph and of the calls of Task.result / Task.persist
taskVars == <<tasks, entries, tstore, stores, explicit, frames, aborted, readFaults>>

vars == <<tasks, entries, tstore, stores, explicit, frames, faults, aborted, readFaults,
          others>>

\* ------------------------------------------------------------------ bounds

\* top-level result() calls made by the caller
MaxCalls == 2
\* failures of fn / storage.set injected in one behaviour
MaxFaults == 1
\* failures of storage.get, other than key-not-found, injected in one behaviour
MaxReadFaults == 1
\* calls of the memoized function in one behaviour
MaxMemoCalls == 3
\* calls of ensure in one behaviour
MaxEnsureCalls == 2
\* calls of get and set of an ObjectStorage in one behaviour
MaxObjectCalls == 2
\* milliseconds the clock advances in one behaviour
MaxNow == 2
\* instances of ObjectStorage derived in one behaviour
MaxDerived == 2
\* the largest number in a duration
MaxDuration == 2
\* the largest number in a JSON structure that is hashed
MaxLeaf == 2
\* how many function objects carry the same name
MaxFns == 2
\* the longest list of tasks given to toposort
MaxInput == 3
\* the most Task objects of a graph built from earlier tasks
MaxTasks == 4
\* the Task objects of a graph of tasks with explicit keys
MaxKeyed == 3
\* callers that call at the same time
MaxConcurrent == 2
\* longest argument list of the hashing specification
MaxArgs == 2

\* ------------------------------------------------------------------ helpers

Last(s) == s[Len(s)]
Front(s) == SubSeq(s, 1, Len(s) - 1)
Range(s) == {s[i] : i \in DOMAIN s}
EmptyMap == [k \in {} |-> 0]
MaxOf(S) == CHOOSE x \in S : \A y \in S : y <= x

RECURSIVE Concat(_)
Concat(ss) == IF ss = <<>> THEN <<>> ELSE Head(ss) \o Concat(Tail(ss))

\* ------------------------------------------------------------------ hash

DigitChars == <<"0", "1", "2", "3", "4", "5", "6", "7", "8", "9">>

\* JSON.stringify of a non-negative integer: its decimal digits
RECURSIVE stringifyNumber(_)
stringifyNumber(n) ==
    IF n < 10 THEN <<DigitChars[n + 1]>>
    ELSE stringifyNumber(n \div 10) \o <<DigitChars[(n % 10) + 1]>>

\* JSON.stringify of a string (of plain characters): the string in quotes
stringifyString(s) == <<"\"">> \o s \o <<"\"">>

\* a Hashable: a number, a string, or a Task (which contributes its key)
Num(n) == [n |-> n, s |-> <<>>, t |-> "num"]
Str(s) == [n |-> 0, s |-> s, t |-> "str"]
TaskRef(key) == [n |-> 0, s |-> key, t |-> "task"]

\* a JSON object, s its properties in insertion order, and an array
Prop(key, value) == [key |-> key, value |-> value]
Obj(pairs) == [n |-> 0, s |-> pairs, t |-> "obj"]
Arr(items) == [n |-> 0, s |-> items, t |-> "arr"]

\* the texts joined by commas
RECURSIVE Join(_)
Join(texts) ==
    IF texts = <<>> THEN <<>>
    ELSE IF Len(texts) = 1 THEN texts[1]
    ELSE texts[1] \o <<",">> \o Join(Tail(texts))

\* JSON.stringify(value): the properties of an object in insertion order
RECURSIVE stringifyValue(_)
stringifyValue(value) ==
    CASE value.t = "num" -> stringifyNumber(value.n)
      [] value.t = "str" -> stringifyString(value.s)
      [] value.t = "arr" ->
            <<"[">> \o Join([i \in DOMAIN value.s |-> stringifyValue(value.s[i])])
                  \o <<"]">>
      [] OTHER ->
            <<"{">> \o Join([i \in DOMAIN value.s |->
                               stringifyString(<<value.s[i].key>>) \o <<":">>
                                   \o stringifyValue(value.s[i].value)])
                  \o <<"}">>

\* the place of a property name in the order of Array.prototype.sort
KeyRank(key) == CHOOSE r \in 1..3 : <<"a", "b", "c">>[r] = key

\* the properties with one more, in the order of their names
RECURSIVE insertPair(_, _)
insertPair(sorted, pair) ==
    IF sorted = <<>> THEN <<pair>>
    ELSE IF KeyRank(pair.key) < KeyRank(Head(sorted).key) THEN <<pair>> \o sorted
    ELSE <<Head(sorted)>> \o insertPair(Tail(sorted), pair)

RECURSIVE sortPairs(_)
sortPairs(pairs) ==
    IF pairs = <<>> THEN <<>> ELSE insertPair(sortPairs(Front(pairs)), Last(pairs))

\* sortKeys(value, { deep: true }): the properties of every object in the order of
\* their names, the objects in arrays included, the items of arrays in place
RECURSIVE sortKeys(_)
sortKeys(value) ==
    CASE value.t = "obj" ->
            Obj(sortPairs([i \in DOMAIN value.s |->
                              Prop(value.s[i].key, sortKeys(value.s[i].value))]))
      [] value.t = "arr" -> Arr([i \in DOMAIN value.s |-> sortKeys(value.s[i])])
      [] OTHER -> value

\* the bytes one value feeds to hash.update in tasks.ts
updateBytes(value) ==
    CASE value.t = "task" -> value.s
      [] value.t \in {"obj", "arr"} -> stringifyValue(sortKeys(value))
      [] value.t = "str" -> stringifyString(value.s)
      [] OTHER -> stringifyNumber(value.n)

\* the bytes one value feeds to hash.update in utils.ts: a string as it is, any
\* other value through JSON.stringify
utilsUpdateBytes(value) ==
    IF value.t = "str" THEN value.s ELSE stringifyValue(value)

\* a collision-free digest, hex encoded: distinct byte strings, distinct digests
digest(bytes) == bytes

\* hash(values): every value is fed to one running digest, one after the other
hash(values) == digest(Concat([i \in DOMAIN values |-> updateBytes(values[i])]))

\* hash(values) of utils.ts, which memoize calls for its default key
utilsHash(values) == digest(Concat([i \in DOMAIN values |-> utilsUpdateBytes(values[i])]))

\* the names createHash knows, and the encodings digest knows
Algorithms == {"sha256", "md5"}
Encodings == {"hex", "base64"}

\* HashOptions: "" stands for an option that is not given
HashOptions(algorithm, encoding) == [algorithm |-> algorithm, encoding |-> encoding]

\* hash(values, options), in tasks.ts and in utils.ts: createHash(options?.encoding ??
\* "sha256") and digest(options?.encoding ?? "hex"); createHash throws for a name that
\* is no algorithm. The result tells which digest was computed and how it is encoded.
hashWithOptions(options) ==
    LET algorithm == IF options.encoding # "" THEN options.encoding ELSE "sha256"
        encoding == IF options.encoding # "" THEN options.encoding ELSE "hex"
    IN  IF algorithm \in Algorithms
        THEN [thrown |-> FALSE, algorithm |-> algorithm, encoding |-> encoding]
        ELSE [thrown |-> TRUE, algorithm |-> "", encoding |-> ""]

\* `${registerName(this.fn)}_${hash(this.args)}`
derivedKey(name, values) == <<name, "_">> \o hash(values)

\* ------------------------------------------------------------------ tasks

\* an element of Task.args: a literal value or another Task object
Lit(n) == [t |-> "lit", v |-> n]
Dep(o) == [t |-> "task", v |-> o]
isTask(arg) == arg.t = "task"

\* Task.constructor: this.key = props.key || `${name}_${hash(this.args)}`;
\* P holds the props of the objects, an argument task is constructed first
RECURSIVE constructKey(_, _)
constructKey(P, o) ==
    IF P[o].xkey # <<>> THEN P[o].xkey
    ELSE derivedKey(P[o].fn,
            [i \in DOMAIN P[o].args |->
                IF isTask(P[o].args[i])
                THEN TaskRef(constructKey(P, P[o].args[i].v))
                ELSE Num(P[o].args[i].v)])

Key(o) == tasks[o].key

\* this.args.filter(isTask)
argTasks(o) ==
    LET as == SelectSeq(tasks[o].args, isTask)
    IN  [i \in DOMAIN as |-> as[i].v]

RECURSIVE removeDuplicateFrom(_, _)
removeDuplicateFrom(ts, seen) ==
    IF ts = <<>> THEN <<>>
    ELSE IF Key(Head(ts)) \in seen THEN removeDuplicateFrom(Tail(ts), seen)
    ELSE <<Head(ts)>> \o removeDuplicateFrom(Tail(ts), seen \cup {Key(Head(ts))})

\* the first Task of every key, in order
removeDuplicateTasks(ts) == removeDuplicateFrom(ts, {})

\* Task.dependencies()
dependencies(o) == removeDuplicateTasks(argTasks(o))

\* the while loop of Task.dependencies({deep: true})
RECURSIVE deepLoop(_, _, _)
deepLoop(deps, seen, work) ==
    IF work = <<>> THEN deps
    ELSE LET task == Last(work)
         IN  IF Key(task) \in seen THEN deepLoop(deps, seen, Front(work))
             ELSE deepLoop(Append(deps, task), seen \cup {Key(task)},
                           Front(work) \o argTasks(task))

\* Task.dependencies({deep: true}): seen and work both start from the direct dependencies
dependenciesDeep(o) ==
    LET deps == dependencies(o)
    IN  deepLoop(deps, {Key(d) : d \in Range(deps)}, deps)

\* the while loop of Task.forEachTask: object identity, not key, marks a task as seen
RECURSIVE forEachLoop(_, _)
forEachLoop(seen, work) ==
    IF work = <<>> THEN seen
    ELSE LET task == Last(work)
         IN  IF task \in seen THEN forEachLoop(seen, Front(work))
             ELSE forEachLoop(seen \cup {task}, Front(work) \o dependencies(task))

\* the Task objects Task.forEachTask calls back on
forEachTask(o) == forEachLoop({}, <<o>>)

\* Task.setDefaultStorage: task.storage ??= storage on every task of forEachTask
setDefaultStorage(ts, o, sid) ==
    [x \in DOMAIN ts |-> IF x \in forEachTask(o) /\ ts[x] = 0 THEN sid ELSE ts[x]]

\* ------------------------------------------------------------------ toposort

\* the loop with a dependency that is being visited skipped instead of reported
RECURSIVE toposortStackSkipsVisiting(_, _)
toposortStackSkipsVisiting(stack, st) ==
    IF stack = <<>> THEN st
    ELSE LET current == Last(stack)
             ck == Key(current)
         IN  IF ck \in st.completed THEN toposortStackSkipsVisiting(Front(stack), st)
             ELSE LET visiting == st.visiting \cup {ck}
                      open == SelectSeq(dependencies(current),
                                        LAMBDA d : Key(d) \notin st.completed
                                                   /\ Key(d) \notin visiting)
                  IN  IF open = <<>>
                      THEN toposortStackSkipsVisiting(Front(stack),
                               [st EXCEPT !.sorted = Append(@, current),
                                          !.completed = @ \cup {ck},
                                          !.visiting = visiting \ {ck}])
                      ELSE toposortStackSkipsVisiting(stack \o open,
                                                      [st EXCEPT !.visiting = visiting])

\* the loop with a task sorted when it is first visited, before its dependencies
RECURSIVE toposortStackDependentFirst(_, _)
toposortStackDependentFirst(stack, st) ==
    IF stack = <<>> THEN st
    ELSE LET current == Last(stack)
             ck == Key(current)
         IN  IF ck \in st.completed THEN toposortStackDependentFirst(Front(stack), st)
             ELSE LET open == SelectSeq(dependencies(current),
                                        LAMBDA d : Key(d) \notin st.completed)
                  IN  toposortStackDependentFirst(Front(stack) \o open,
                          [st EXCEPT !.sorted = Append(@, current),
                                     !.completed = @ \cup {ck}])

\* the loop with the dependencies of a task left out when the task's storage holds its key
RECURSIVE toposortStackStopsAtStored(_, _)
toposortStackStopsAtStored(stack, st) ==
    IF stack = <<>> \/ ~st.ok THEN st
    ELSE LET current == Last(stack)
             ck == Key(current)
         IN  IF ck \in st.completed THEN toposortStackStopsAtStored(Front(stack), st)
             ELSE LET visiting == st.visiting \cup {ck}
                      stored == /\ tstore[current] # 0
                                /\ ck \in DOMAIN stores[tstore[current]]
                      open == IF stored THEN <<>>
                              ELSE SelectSeq(dependencies(current),
                                             LAMBDA d : Key(d) \notin st.completed)
                      back == SelectSeq(open, LAMBDA d : Key(d) \in visiting)
                  IN  IF back # <<>>
                      THEN [st EXCEPT !.ok = FALSE, !.visiting = visiting,
                                      !.from = ck, !.to = Key(Head(back))]
                      ELSE IF open = <<>>
                      THEN toposortStackStopsAtStored(Front(stack),
                               [st EXCEPT !.sorted = Append(@, current),
                                          !.completed = @ \cup {ck},
                                          !.visiting = visiting \ {ck}])
                      ELSE toposortStackStopsAtStored(stack \o open,
                                                      [st EXCEPT !.visiting = visiting])

\* the while (tasksToProcess.length) loop of toposort; st.ok = FALSE is the throw
RECURSIVE toposortStack(_, _)
toposortStack(stack, st) ==
    IF stack = <<>> \/ ~st.ok THEN st
    ELSE LET current == Last(stack)
             ck == Key(current)
         IN  IF ck \in st.completed THEN toposortStack(Front(stack), st)
             ELSE LET visiting == st.visiting \cup {ck}
                      open == SelectSeq(dependencies(current),
                                        LAMBDA d : Key(d) \notin st.completed)
                      back == SelectSeq(open, LAMBDA d : Key(d) \in visiting)
                  IN  IF back # <<>>
                      THEN [st EXCEPT !.ok = FALSE, !.visiting = visiting,
                                      !.from = ck, !.to = Key(Head(back))]
                      ELSE IF open = <<>>
                      THEN toposortStack(Front(stack),
                               [st EXCEPT !.sorted = Append(@, current),
                                          !.completed = @ \cup {ck},
                                          !.visiting = visiting \ {ck}])
                      ELSE toposortStack(stack \o open, [st EXCEPT !.visiting = visiting])

\* the for loop of toposort over the de-duplicated tasks
RECURSIVE toposortFrom(_, _)
toposortFrom(ts, st) ==
    IF ts = <<>> \/ ~st.ok THEN st
    ELSE IF Key(Head(ts)) \in st.completed THEN toposortFrom(Tail(ts), st)
    ELSE toposortFrom(Tail(ts), toposortStack(<<Head(ts)>>, st))

toposort(ts) ==
    toposortFrom(removeDuplicateTasks(ts),
                 [sorted |-> <<>>, completed |-> {}, visiting |-> {},
                  ok |-> TRUE, from |-> <<>>, to |-> <<>>])

\* the layers with a task one above its first dependency only
RECURSIVE layersByKeyOfFirst(_, _)
layersByKeyOfFirst(sorted, m) ==
    IF sorted = <<>> THEN m
    ELSE LET task == Head(sorted)
             deps == dependencies(task)
             layer == IF deps = <<>> THEN 0 ELSE m[Key(deps[1])] + 1
         IN  layersByKeyOfFirst(Tail(sorted), (Key(task) :> layer) @@ m)

\* the layers with a task one above its last dependency only
RECURSIVE layersByKeyOfLast(_, _)
layersByKeyOfLast(sorted, m) ==
    IF sorted = <<>> THEN m
    ELSE LET task == Head(sorted)
             deps == dependencies(task)
             layer == IF deps = <<>> THEN 0 ELSE m[Key(deps[Len(deps)])] + 1
         IN  layersByKeyOfLast(Tail(sorted), (Key(task) :> layer) @@ m)

\* layersByKey of dependencyLayers: layer = max(-1, layers of the dependencies) + 1
RECURSIVE layersByKey(_, _)
layersByKey(sorted, m) ==
    IF sorted = <<>> THEN m
    ELSE LET task == Head(sorted)
             maxDependencyLayer ==
                 MaxOf({-1} \cup {IF Key(d) \in DOMAIN m THEN m[Key(d)] ELSE 0 :
                                     d \in Range(dependencies(task))})
         IN  layersByKey(Tail(sorted), (Key(task) :> (maxDependencyLayer + 1)) @@ m)

\* dependencyLayers(task): ok = FALSE when toposort threw 'Cycle detected: from -> to'
dependencyLayers(o) ==
    LET ts == toposort(<<o>> \o dependenciesDeep(o))
        m == layersByKey(ts.sorted, EmptyMap)
        n == IF ts.sorted = <<>> THEN 0 ELSE MaxOf({m[k] : k \in DOMAIN m}) + 1
    IN  [ok |-> ts.ok, from |-> ts.from, to |-> ts.to,
         layers |-> [l \in 1..n |-> SelectSeq(ts.sorted, LAMBDA t : m[Key(t)] = l - 1)]]

\* ------------------------------------------------------------------ frames

\* the functions the tasks wrap: square(x) = x * x, sum(a, b) = a + b
apply(fn, args) ==
    IF fn = "square" THEN args[1] * args[1] ELSE args[1] + args[2]

Frame(kind, o, parent, top, pc, err, store, layer, cached) ==
    [kind |-> kind, task |-> o, parent |-> parent, top |-> top, pc |-> pc,
     err |-> err, val |-> 0, store |-> store, layers |-> <<>>, li |-> 0,
     layer |-> layer, kids |-> <<>>, args |-> <<>>, invoked |-> FALSE,
     wrote |-> FALSE, cached |-> cached, rerr |-> FALSE]

\* createDefaultStorage(): a new, empty Map behind get/set
createDefaultStorage(ss) == Append(ss, EmptyMap)

\* a storage whose get throws keyNotFound for every key
hasNothing(ss, sid, key) == FALSE

\* storage.get(key) succeeds
has(ss, sid, key) == key \in DOMAIN ss[sid]

\* the ways a storage.get that is in flight can end: as the storage holds or lacks the
\* key (FALSE), or with an error that is not key-not-found (TRUE)
ReadOutcomes == IF readFaults > 0 THEN {FALSE, TRUE} ELSE {FALSE}

\* storage.set(key, value) of a storage that stores under a name of its own
setToStorageElsewhere(ss, sid, key, value) ==
    [ss EXCEPT ![sid] = (<<"tmp">> \o key :> value) @@ @]

\* storage.set(key, value) succeeds
setToStorage(ss, sid, key, value) == [ss EXCEPT ![sid] = (key :> value) @@ @]

\* The synchronous head of Task.result(): the default storage is attached when this
\* task has none, signal?.throwIfAborted() rejects the call when the signal is aborted,
\* and else the call is suspended at its first await, the storage read.
\* st = [frames, tstore, stores]; top = 0 for a call of the caller.
startResult(st, o, parent, top) ==
    LET lacks == st.tstore[o] = 0
        ss == IF lacks THEN createDefaultStorage(st.stores) ELSE st.stores
        ts == IF lacks THEN setDefaultStorage(st.tstore, o, Len(ss)) ELSE st.tstore
        id == Len(st.frames) + 1
    IN  [frames |-> Append(st.frames,
                      Frame("result", o, parent, IF top = 0 THEN id ELSE top,
                            IF aborted THEN "failed" ELSE "get",
                            IF aborted THEN "aborted" ELSE "",
                            ts[o], 0, Key(o) \in DOMAIN ss[ts[o]])),
         tstore |-> ts, stores |-> ss]

\* The synchronous head of Task.persist(): without a storage it throws at once, with
\* the signal aborted signal?.throwIfAborted() throws, else it is suspended at the
\* storage read.
startPersist(fs, ts, o, parent, top, layer) ==
    Append(fs, IF ts[o] = 0
               THEN Frame("persist", o, parent, top, "failed", "nostorage", 0, layer, FALSE)
               ELSE IF aborted
               THEN Frame("persist", o, parent, top, "failed", "aborted", ts[o], layer, FALSE)
               ELSE Frame("persist", o, parent, top, "get", "", ts[o], layer, FALSE))

\* layer.map((task) => task.persist({ signal }))
RECURSIVE startLayer(_, _, _, _, _, _)
startLayer(fs, ts, layer, parent, top, li) ==
    IF layer = <<>> THEN fs
    ELSE startLayer(startPersist(fs, ts, Head(layer), parent, top, li),
                    ts, Tail(layer), parent, top, li)

\* args.map(async (arg) => (arg instanceof Task ? arg.result(options) : arg))
RECURSIVE startUnwrap(_, _, _, _)
startUnwrap(st, as, parent, top) ==
    IF as = <<>> THEN st
    ELSE startUnwrap(startResult(st, Head(as), parent, top), Tail(as), parent, top)

\* the frames a call started
Children(f) == {c \in DOMAIN frames : frames[c].parent = f}
LayerCalls(f) == {c \in Children(f) : frames[c].layer = frames[f].li}

\* the layer counts as resolved with its first persist that resolves
layerResolvedByAny(f) == \E c \in LayerCalls(f) : frames[c].pc = "done"

\* the layer counts as resolved when every persist has settled, rejected ones included
layerSettled(f) == \A c \in LayerCalls(f) : frames[c].pc \in {"done", "failed"}

\* await Promise.all(...) of the current layer resolves: every persist has resolved
layerResolved(f) == \A c \in LayerCalls(f) : frames[c].pc = "done"

\* await Promise.all(...) of unwrap resolves: every arg.result() has resolved
unwrapResolved(f) == \A c \in Range(frames[f].kids) : frames[c].pc = "done"

\* every task's place takes the value of the first argument task
unwrappedArgsFirstTask(f) ==
    LET as == tasks[frames[f].task].args
    IN  [i \in DOMAIN as |->
            IF isTask(as[i]) THEN frames[frames[f].kids[1]].val ELSE as[i].v]

\* the unwrapped arguments: a task's place takes the value its result() returned
unwrappedArgs(f) ==
    LET as == tasks[frames[f].task].args
        nth(i) == Cardinality({j \in 1..i : isTask(as[j])})
    IN  [i \in DOMAIN as |->
            IF isTask(as[i]) THEN frames[frames[f].kids[nth(i)]].val ELSE as[i].v]

\* ------------------------------------------------------------------ graphs

Props(fn, args, xkey) == [fn |-> fn, args |-> args, xkey |-> xkey]
square(x) == Props("square", <<x>>, <<>>)
sum(a, b) == Props("sum", <<a, b>>, <<>>)

\* The task graphs the caller builds: the objects in order of construction and the
\* objects it calls result() on. The cyclic ones carry explicit keys.
Graphs == <<
    \* square(5), created twice
    [props |-> <<square(Lit(5)), square(Lit(5))>>, entries |-> {1, 2}],
    \* sum(square(2), square(3))
    [props |-> <<square(Lit(2)), square(Lit(3)), sum(Dep(1), Dep(2))>>, entries |-> {3}],
    \* sum(square(2), square(2)): two objects of one key
    [props |-> <<square(Lit(2)), square(Lit(2)), sum(Dep(1), Dep(2))>>, entries |-> {3}],
    \* const s = square(2); sum(s, 3)
    [props |-> <<square(Lit(2)), sum(Dep(1), Lit(3))>>, entries |-> {2}],
    \* sum(square(2), square(square(3)))
    [props |-> <<square(Lit(2)), square(Lit(3)), square(Dep(2)), sum(Dep(1), Dep(3))>>,
     entries |-> {4}],
    \* a -> b -> a
    [props |-> <<Props("square", <<Dep(2)>>, <<"a">>), Props("square", <<Dep(1)>>, <<"b">>)>>,
     entries |-> {1}],
    \* a -> a
    [props |-> <<Props("square", <<Dep(1)>>, <<"a">>)>>, entries |-> {1}],
    \* sum(2, a) with a -> b -> a
    [props |-> <<Props("square", <<Dep(2)>>, <<"a">>), Props("square", <<Dep(1)>>, <<"b">>),
                 sum(Lit(2), Dep(1))>>,
     entries |-> {3}]
>>

\* which tasks the caller's task creators were given the explicit storage (id 1) for
StorageModes == {"none", "all", "entries", "dependencies"}

\* what the explicit storage holds from earlier runs
SeedModes == {"empty", "entries", "dependencies", "all"}

\* the dependency relation on keys
KeyEdges == UNION {{<<Key(o), Key(d)>> : d \in Range(argTasks(o))} : o \in DOMAIN tasks}

\* the keys reachable from the keys `from` through the edges E
RECURSIVE ReachKeys(_, _)
ReachKeys(E, from) ==
    LET more == from \cup {e[2] : e \in {x \in E : x[1] \in from}}
    IN  IF more = from THEN from ELSE ReachKeys(E, more)

\* the keys k depends on, directly or transitively
DependsOn(k) ==
    LET E == KeyEdges
    IN  ReachKeys(E, {e[2] : e \in {x \in E : x[1] = k}})

\* the graph reachable from task o holds a cycle
Cyclic(o) == \E k \in DependsOn(Key(o)) \cup {Key(o)} : k \in DependsOn(k)

\* the tasks whose graph holds a cycle
CyclicTasks == {o \in DOMAIN tasks : Cyclic(o)}

\* the value of a task of an acyclic graph: fn applied to the values of its arguments
RECURSIVE valueOf(_)
valueOf(o) ==
    apply(tasks[o].fn,
          [i \in DOMAIN tasks[o].args |->
              IF isTask(tasks[o].args[i]) THEN valueOf(tasks[o].args[i].v)
              ELSE tasks[o].args[i].v])

\* what an earlier run left under the key of o (any value, for a graph cyclic by now)
seedValue(o) == IF Cyclic(o) THEN 10 ELSE valueOf(o)

Seeded(mode) ==
    CASE mode = "empty" -> {}
      [] mode = "entries" -> entries
      [] mode = "dependencies" -> DOMAIN tasks \ entries
      [] OTHER -> DOMAIN tasks

InitGraph ==
    \E g \in Range(Graphs), sm \in StorageModes, seed \in SeedModes :
        /\ tasks = [o \in DOMAIN g.props |->
                        [fn |-> g.props[o].fn, args |-> g.props[o].args,
                         key |-> constructKey(g.props, o)]]
        /\ entries = g.entries
        /\ tstore = [o \in DOMAIN g.props |->
                        IF \/ sm = "all"
                           \/ sm = "entries" /\ o \in g.entries
                           \/ sm = "dependencies" /\ o \notin g.entries
                        THEN 1 ELSE 0]
        /\ explicit = (IF sm = "none" THEN 0 ELSE 1)
        /\ sm = "none" => seed = "empty"
        /\ stores = IF sm = "none" THEN <<>>
                    ELSE <<[k \in {Key(o) : o \in Seeded(seed)} |->
                               seedValue(CHOOSE o \in Seeded(seed) : Key(o) = k)]>>
        /\ frames = <<>>

\* no synchronous method was called yet
NoOp ==
    [name |-> "", task |-> 0, deep |-> FALSE, out |-> <<>>, storage |-> 0, before |-> <<>>]

\* no task graph was built
NoTasks ==
    /\ tasks = <<>> /\ entries = {} /\ tstore = <<>> /\ stores = <<>>
    /\ explicit = 0 /\ frames = <<>>
    /\ aborted = FALSE /\ readFaults = 0

\* no function was memoized
NoMemo == mcond = FALSE /\ mcalls = <<>> /\ mstore = EmptyMap /\ mlast = EmptyMap

\* no object storage was made
NoEnsure == pstore = EmptyMap /\ ecalls = <<>>

\* no instance of ObjectStorage was made
NoObjects == insts = <<>> /\ objects = EmptyMap /\ now = 0 /\ ocalls = <<>>

\* no function without side effects was called
NoPure == fargs = <<>> /\ fres = <<>>
NoRegistry == nameRegistry = EmptyMap

\* the parts of the state the task engine does not use
Idle ==
    /\ hargs = <<>> /\ hkeys = <<>>
    /\ op = NoOp
    /\ callers = "result"
    /\ NoMemo
    /\ NoEnsure
    /\ NoObjects /\ NoPure /\ NoRegistry

\* result() is called without a signal and the storage reads of present keys succeed
Init ==
    /\ InitGraph
    /\ faults \in 0..MaxFaults
    /\ aborted = FALSE
    /\ readFaults = 0
    /\ Idle

\* ------------------------------------------------------------------ Task.result

State == [frames |-> frames, tstore |-> tstore, stores |-> stores]
TopCalls == {f \in DOMAIN frames : frames[f].parent = 0}
Settled(f) == frames[f].pc \in {"done", "failed"}

\* the caller calls task.result(), one call after the other
Call(o) ==
    /\ o \in entries
    /\ Cardinality(TopCalls) < MaxCalls
    /\ \A f \in TopCalls : Settled(f)
    /\ LET st == startResult(State, o, 0, 0)
       IN  /\ frames' = st.frames
           /\ tstore' = st.tstore
           /\ stores' = st.stores
    /\ UNCHANGED <<tasks, entries, explicit, faults, aborted, readFaults, others>>

\* result = await getFromStorage(storage, this.key): a hit returns the value; a miss
\* builds the layers (or throws the cycle error) and starts the persists of layers[0]
ResultGet(f) ==
    /\ frames[f].kind = "result" /\ frames[f].pc = "get"
    /\ \E e \in ReadOutcomes :
          LET fr == frames[f]
              dl == dependencyLayers(fr.task)
          IN  /\ readFaults' = IF e THEN readFaults - 1 ELSE readFaults
              /\ frames' =
                    IF ~e /\ has(stores, fr.store, Key(fr.task))
                    THEN [frames EXCEPT ![f].pc = "done",
                                        ![f].val = stores[fr.store][Key(fr.task)]]
                    ELSE IF ~dl.ok
                    THEN [frames EXCEPT ![f].pc = "failed", ![f].err = "cycle",
                                        ![f].rerr = e]
                    ELSE IF aborted
                    THEN [frames EXCEPT ![f].pc = "failed", ![f].err = "aborted",
                                        ![f].layers = dl.layers, ![f].rerr = e]
                    ELSE startLayer([frames EXCEPT ![f].pc = "layer",
                                                   ![f].layers = dl.layers,
                                                   ![f].li = 1, ![f].rerr = e],
                                    tstore, dl.layers[1], f, fr.top, 1)
    /\ UNCHANGED <<tasks, entries, tstore, stores, explicit, faults, aborted, others>>

\* Promise.all of the layer rejects with the error of a persist that rejected
ResultLayerRejected(f) ==
    /\ frames[f].kind = "result" /\ frames[f].pc = "layer"
    /\ \E c \in LayerCalls(f) :
          /\ frames[c].pc = "failed"
          /\ frames' = [frames EXCEPT ![f].pc = "failed", ![f].err = frames[c].err]
    /\ UNCHANGED <<tasks, entries, tstore, stores, explicit, faults, aborted, readFaults, others>>

\* Promise.all of the layer resolves: signal?.throwIfAborted(), then the next layer
\* starts, or the final read is issued
ResultLayerResolved(f) ==
    /\ frames[f].kind = "result" /\ frames[f].pc = "layer"
    /\ layerResolved(f)
    /\ LET fr == frames[f]
       IN  frames' =
             IF aborted
             THEN [frames EXCEPT ![f].pc = "failed", ![f].err = "aborted"]
             ELSE IF fr.li < Len(fr.layers)
             THEN startLayer([frames EXCEPT ![f].li = fr.li + 1],
                             tstore, fr.layers[fr.li + 1], f, fr.top, fr.li + 1)
             ELSE [frames EXCEPT ![f].pc = "get2"]
    /\ UNCHANGED <<tasks, entries, tstore, stores, explicit, faults, aborted, readFaults, others>>

\* result = await getFromStorage(storage, this.key) after the layers; throw result.error
ResultGet2(f) ==
    /\ frames[f].kind = "result" /\ frames[f].pc = "get2"
    /\ \E e \in ReadOutcomes :
          LET fr == frames[f]
          IN  /\ readFaults' = IF e THEN readFaults - 1 ELSE readFaults
              /\ frames' =
                    IF e THEN [frames EXCEPT ![f].pc = "failed", ![f].err = "read"]
                    ELSE IF has(stores, fr.store, Key(fr.task))
                    THEN [frames EXCEPT ![f].pc = "done",
                                        ![f].val = stores[fr.store][Key(fr.task)]]
                    ELSE [frames EXCEPT ![f].pc = "failed", ![f].err = "notfound"]
    /\ UNCHANGED <<tasks, entries, tstore, stores, explicit, faults, aborted, others>>

\* ------------------------------------------------------------------ Task.persist

\* existingResult = await getFromStorage(storage, key): a hit returns; a miss calls
\* unwrap, which calls result() on every argument that is a Task
PersistGet(f) ==
    /\ frames[f].kind = "persist" /\ frames[f].pc = "get"
    /\ \E e \in ReadOutcomes :
          LET fr == frames[f]
              n == Len(frames)
              as == argTasks(fr.task)
              st == startUnwrap(State, as, f, fr.top)
          IN  /\ readFaults' = IF e THEN readFaults - 1 ELSE readFaults
              /\ IF ~e /\ has(stores, fr.store, Key(fr.task))
                 THEN /\ frames' = [frames EXCEPT ![f].pc = "done", ![f].cached = TRUE]
                      /\ UNCHANGED <<tstore, stores>>
                 ELSE /\ frames' = [st.frames EXCEPT ![f].pc = "unwrap", ![f].rerr = e,
                                                     ![f].kids = [i \in DOMAIN as |-> n + i]]
                      /\ tstore' = st.tstore
                      /\ stores' = st.stores
    /\ UNCHANGED <<tasks, entries, explicit, faults, aborted, others>>

\* unwrap rejects with the error of an arg.result() that rejected
PersistUnwrapRejected(f) ==
    /\ frames[f].kind = "persist" /\ frames[f].pc = "unwrap"
    /\ \E c \in Range(frames[f].kids) :
          /\ frames[c].pc = "failed"
          /\ frames' = [frames EXCEPT ![f].pc = "failed", ![f].err = frames[c].err]
    /\ UNCHANGED <<tasks, entries, tstore, stores, explicit, faults, aborted, readFaults, others>>

\* args = await unwrap(...) resolves; signal?.throwIfAborted(); this.fn(...args) is
\* invoked
PersistInvoke(f) ==
    /\ frames[f].kind = "persist" /\ frames[f].pc = "unwrap"
    /\ unwrapResolved(f)
    /\ frames' = IF aborted
                 THEN [frames EXCEPT ![f].pc = "failed", ![f].err = "aborted"]
                 ELSE [frames EXCEPT ![f].pc = "fn", ![f].args = unwrappedArgs(f),
                                     ![f].invoked = TRUE]
    /\ UNCHANGED <<tasks, entries, tstore, stores, explicit, faults, aborted, readFaults, others>>

\* value = await this.fn(...args) resolves and setToStorage is called, the signal not
\* looked at
FnReturnUnchecked(f) ==
    /\ frames[f].kind = "persist" /\ frames[f].pc = "fn"
    /\ frames' = [frames EXCEPT ![f].pc = "set",
                      ![f].val = apply(tasks[frames[f].task].fn, frames[f].args)]
    /\ UNCHANGED <<tasks, entries, tstore, stores, explicit, faults, aborted, readFaults, others>>

\* value = await this.fn(...args) resolves; signal?.throwIfAborted(); setToStorage is
\* called
FnReturn(f) ==
    /\ frames[f].kind = "persist" /\ frames[f].pc = "fn"
    /\ frames' = IF aborted
                 THEN [frames EXCEPT ![f].pc = "failed", ![f].err = "aborted"]
                 ELSE [frames EXCEPT ![f].pc = "set",
                           ![f].val = apply(tasks[frames[f].task].fn, frames[f].args)]
    /\ UNCHANGED <<tasks, entries, tstore, stores, explicit, faults, aborted, readFaults, others>>

\* this.fn(...args) throws or rejects
FnThrow(f) ==
    /\ frames[f].kind = "persist" /\ frames[f].pc = "fn"
    /\ faults > 0
    /\ faults' = faults - 1
    /\ frames' = [frames EXCEPT ![f].pc = "failed", ![f].err = "fn"]
    /\ UNCHANGED <<tasks, entries, tstore, stores, explicit, aborted, readFaults, others>>

\* storage.set(key, value) succeeds: result.ok
PersistSet(f) ==
    /\ frames[f].kind = "persist" /\ frames[f].pc = "set"
    /\ stores' = setToStorage(stores, frames[f].store, Key(frames[f].task), frames[f].val)
    /\ frames' = [frames EXCEPT ![f].pc = "done", ![f].wrote = TRUE]
    /\ UNCHANGED <<tasks, entries, tstore, explicit, faults, aborted, readFaults, others>>

\* storage.set(key, value) fails: throw result.error
PersistSetFails(f) ==
    /\ frames[f].kind = "persist" /\ frames[f].pc = "set"
    /\ faults > 0
    /\ faults' = faults - 1
    /\ frames' = [frames EXCEPT ![f].pc = "failed", ![f].err = "set"]
    /\ UNCHANGED <<tasks, entries, tstore, stores, explicit, aborted, readFaults, others>>

Next ==
    \/ \E o \in DOMAIN tasks : Call(o)
    \/ \E f \in DOMAIN frames : ResultGet(f)
    \/ \E f \in DOMAIN frames : ResultLayerRejected(f)
    \/ \E f \in DOMAIN frames : ResultLayerResolved(f)
    \/ \E f \in DOMAIN frames : ResultGet2(f)
    \/ \E f \in DOMAIN frames : PersistGet(f)
    \/ \E f \in DOMAIN frames : PersistUnwrapRejected(f)
    \/ \E f \in DOMAIN frames : PersistInvoke(f)
    \/ \E f \in DOMAIN frames : FnReturn(f)
    \/ \E f \in DOMAIN frames : FnThrow(f)
    \/ \E f \in DOMAIN frames : PersistSet(f)
    \/ \E f \in DOMAIN frames : PersistSetFails(f)

\* a step of a call that is not the caller's: the event loop runs every continuation
\* that is ready, and a storage operation or a task function that was started ends
Progress ==
    \E f \in DOMAIN frames :
        \/ ResultGet(f) \/ ResultLayerRejected(f) \/ ResultLayerResolved(f)
        \/ ResultGet2(f) \/ PersistGet(f) \/ PersistUnwrapRejected(f)
        \/ PersistInvoke(f) \/ FnReturn(f) \/ FnThrow(f) \/ PersistSet(f)
        \/ PersistSetFails(f)

Spec == Init /\ [][Next]_vars

\* a continuation is ready: ENABLED <<Progress>>_vars, written out on the guards
Runnable ==
    \E f \in DOMAIN frames :
        \/ frames[f].pc \in {"get", "get2", "fn", "set"}
        \/ /\ frames[f].pc = "layer"
           /\ layerResolved(f) \/ \E c \in LayerCalls(f) : frames[c].pc = "failed"
        \/ /\ frames[f].pc = "unwrap"
           /\ unwrapResolved(f) \/ \E c \in Range(frames[f].kids) : frames[c].pc = "failed"

\* weak fairness of Progress, WF_vars(Progress), with Runnable as its enabling condition
FairSpec == Spec /\ ([]<>(~Runnable) \/ []<><<Progress>>_vars)

\* ------------------------------------------------------------------ cancellation

\* the caller aborts the signal it passed to result(): controller.abort()
Abort ==
    /\ ~aborted
    /\ aborted' = TRUE
    /\ UNCHANGED <<tasks, entries, tstore, stores, explicit, frames, faults, readFaults,
                   others>>

NextCancel == Next \/ Abort

\* every result() is called with the signal of one AbortController
SpecCancel == Init /\ [][NextCancel]_vars

\* ------------------------------------------------------------------ read errors

\* the storage may fail a read with an error that is not key-not-found
InitReadError ==
    /\ InitGraph
    /\ faults \in 0..MaxFaults
    /\ aborted = FALSE
    /\ readFaults \in 0..MaxReadFaults
    /\ Idle

SpecReadError == InitReadError /\ [][Next]_vars

\* ------------------------------------------------------------------ Task methods

\* the caller calls task.dependencies() or task.dependencies({ deep: true })
Dependencies(o, deep) ==
    /\ op' = [name |-> "dependencies", task |-> o, deep |-> deep,
              out |-> IF deep THEN dependenciesDeep(o) ELSE dependencies(o),
              storage |-> 0, before |-> <<>>]
    /\ UNCHANGED <<taskVars, faults, hargs, hkeys, callers, memoVars, ensureVars, objectVars, pureVars, registryVars>>

\* the caller calls task.setDefaultStorage(s) with a storage s it has made
SetDefaultStorage(o) ==
    /\ explicit < MaxCalls
    /\ stores' = Append(stores, EmptyMap)
    /\ explicit' = explicit + 1
    /\ tstore' = setDefaultStorage(tstore, o, Len(stores) + 1)
    /\ op' = [name |-> "setDefaultStorage", task |-> o, deep |-> FALSE, out |-> <<>>,
              storage |-> Len(stores) + 1, before |-> tstore]
    /\ UNCHANGED <<tasks, entries, frames, faults, aborted, readFaults, hargs, hkeys,
                   callers, memoVars, ensureVars, objectVars, pureVars, registryVars>>

NextGraph ==
    \/ \E o \in DOMAIN tasks, deep \in BOOLEAN : Dependencies(o, deep)
    \/ \E o \in DOMAIN tasks : SetDefaultStorage(o)

\* the caller builds a graph and calls the synchronous methods of its tasks
SpecGraph == Init /\ [][NextGraph]_vars

\* ------------------------------------------------------------------ memoize

\* the first arguments the memoized function is called with
MemoArgs == {1, 2}

\* keyFn(...args): a key made of the first argument alone, as textResultKey, which
\* leaves ignoreCache out of the key
keyFn(x) == <<"k">> \o stringifyNumber(x)

\* what the underlying function returns for the argument x when call c invokes it:
\* a value of its own for every invocation, as a text generator's (by = 0: a value
\* that an earlier run has stored)
fnValue(x, c) == [arg |-> x, by |-> c]

\* one call memoizedFn(x, { ignoreCache }), suspended at its first await:
\* condition(...args) when there is a condition, else get(key) with the key derived
MemoFrame(x, ic) ==
    [arg |-> x, ignoreCache |-> ic, pc |-> IF mcond THEN "cond" ELSE "get",
     key |-> IF mcond THEN <<>> ELSE keyFn(x), val |-> fnValue(0, 0),
     gets |-> IF mcond THEN 0 ELSE 1, sets |-> 0, invs |-> 0, hit |-> FALSE,
     rerr |-> FALSE, wrote |-> FALSE, setFailed |-> FALSE]

MemoSettled(c) == mcalls[c].pc \in {"done", "failed"}

\* the variables a step of a memoized call leaves alone
memoRest == <<taskVars, hargs, hkeys, op, callers, mcond, ensureVars, objectVars, pureVars, registryVars>>

\* the caller calls memoizedFn(x, { ignoreCache: ic }), one call after the other
\* (ignoreCache is of use only with the condition that reads it)
MemoCall(x, ic) ==
    /\ callers = "memoize"
    /\ Len(mcalls) < MaxMemoCalls
    /\ \A c \in DOMAIN mcalls : MemoSettled(c)
    /\ ic => mcond
    /\ mcalls' = Append(mcalls, MemoFrame(x, ic))
    /\ UNCHANGED <<memoRest, faults, mstore, mlast>>

\* every call is memoized, whatever the condition returns
MemoCondIgnored(c) ==
    /\ mcalls[c].pc = "cond"
    /\ mcalls' = [mcalls EXCEPT ![c].pc = "get", ![c].key = keyFn(mcalls[c].arg),
                                 ![c].gets = @ + 1]
    /\ UNCHANGED <<memoRest, faults, mstore, mlast>>

\* shouldMemoize = await condition(...args); if (!shouldMemoize) return fn(...args);
\* key = await keyFn(...args); get(key) is called
MemoCond(c) ==
    /\ mcalls[c].pc = "cond"
    /\ IF mcalls[c].ignoreCache
       THEN mcalls' = [mcalls EXCEPT ![c].pc = "direct", ![c].invs = @ + 1,
                                     ![c].val = fnValue(mcalls[c].arg, c)]
       ELSE mcalls' = [mcalls EXCEPT ![c].pc = "get", ![c].key = keyFn(mcalls[c].arg),
                                     ![c].gets = @ + 1]
    /\ UNCHANGED <<memoRest, faults, mstore, mlast>>

\* result = await get(key) resolves: return result
MemoGetHit(c) ==
    /\ mcalls[c].pc = "get"
    /\ mcalls[c].key \in DOMAIN mstore
    /\ mcalls' = [mcalls EXCEPT ![c].pc = "done", ![c].hit = TRUE,
                                 ![c].val = mstore[mcalls[c].key]]
    /\ UNCHANGED <<memoRest, faults, mstore, mlast>>

\* await get(key) rejects, the key not found or the read failed: fn(...args) is called
MemoGetFails(c) ==
    /\ mcalls[c].pc = "get"
    /\ \/ mcalls[c].key \notin DOMAIN mstore /\ UNCHANGED faults
          /\ mcalls' = [mcalls EXCEPT ![c].pc = "fn", ![c].invs = @ + 1,
                                       ![c].val = fnValue(mcalls[c].arg, c)]
       \/ faults > 0 /\ faults' = faults - 1
          /\ mcalls' = [mcalls EXCEPT ![c].pc = "fn", ![c].invs = @ + 1, ![c].rerr = TRUE,
                                       ![c].val = fnValue(mcalls[c].arg, c)]
    /\ UNCHANGED <<memoRest, mstore, mlast>>

\* fn(...args) resolves: the bypassing call returns it, the other calls set(key, result)
MemoFnReturn(c) ==
    /\ mcalls[c].pc \in {"fn", "direct"}
    /\ mcalls' = IF mcalls[c].pc = "direct"
                 THEN [mcalls EXCEPT ![c].pc = "done"]
                 ELSE [mcalls EXCEPT ![c].pc = "set", ![c].sets = @ + 1]
    /\ UNCHANGED <<memoRest, faults, mstore, mlast>>

\* fn(...args) rejects: the call rejects
MemoFnThrow(c) ==
    /\ mcalls[c].pc \in {"fn", "direct"}
    /\ faults > 0 /\ faults' = faults - 1
    /\ mcalls' = [mcalls EXCEPT ![c].pc = "failed"]
    /\ UNCHANGED <<memoRest, mstore, mlast>>

\* set(key, result) of a storage that keeps the value it already holds for the key
MemoSetKeepsFirst(c) ==
    /\ mcalls[c].pc = "set"
    /\ mstore' = mstore @@ (mcalls[c].key :> mcalls[c].val)
    /\ mlast' = (mcalls[c].key :> [by |-> c, val |-> mcalls[c].val]) @@ mlast
    /\ mcalls' = [mcalls EXCEPT ![c].pc = "done", ![c].wrote = TRUE]
    /\ UNCHANGED <<memoRest, faults>>

\* set(key, result) resolves without having stored anything
MemoSetDrops(c) ==
    /\ mcalls[c].pc = "set"
    /\ mcalls' = [mcalls EXCEPT ![c].pc = "done", ![c].wrote = TRUE]
    /\ UNCHANGED <<memoRest, faults, mstore, mlast>>

\* await set(key, result) resolves: return result
MemoSet(c) ==
    /\ mcalls[c].pc = "set"
    /\ mstore' = (mcalls[c].key :> mcalls[c].val) @@ mstore
    /\ mlast' = (mcalls[c].key :> [by |-> c, val |-> mcalls[c].val]) @@ mlast
    /\ mcalls' = [mcalls EXCEPT ![c].pc = "done", ![c].wrote = TRUE]
    /\ UNCHANGED <<memoRest, faults>>

\* a failure of set(key, result) rejects the call
MemoSetFailsThrows(c) ==
    /\ mcalls[c].pc = "set"
    /\ faults > 0 /\ faults' = faults - 1
    /\ mcalls' = [mcalls EXCEPT ![c].pc = "failed", ![c].setFailed = TRUE]
    /\ UNCHANGED <<memoRest, mstore, mlast>>

\* await set(key, result) rejects: the error is logged and result is returned
MemoSetFails(c) ==
    /\ mcalls[c].pc = "set"
    /\ faults > 0 /\ faults' = faults - 1
    /\ mcalls' = [mcalls EXCEPT ![c].pc = "done", ![c].setFailed = TRUE]
    /\ UNCHANGED <<memoRest, mstore, mlast>>

NextMemo ==
    \/ \E x \in MemoArgs, ic \in BOOLEAN : MemoCall(x, ic)
    \/ \E c \in DOMAIN mcalls : MemoCond(c)
    \/ \E c \in DOMAIN mcalls : MemoGetHit(c)
    \/ \E c \in DOMAIN mcalls : MemoGetFails(c)
    \/ \E c \in DOMAIN mcalls : MemoFnReturn(c)
    \/ \E c \in DOMAIN mcalls : MemoFnThrow(c)
    \/ \E c \in DOMAIN mcalls : MemoSet(c)
    \/ \E c \in DOMAIN mcalls : MemoSetFails(c)

\* memoize(fn, { condition?, key, get, set }) over a storage that is empty or holds
\* the value of an earlier run
InitMemo ==
    /\ NoTasks
    /\ NoEnsure
    /\ NoObjects /\ NoPure /\ NoRegistry
    /\ hargs = <<>> /\ hkeys = <<>> /\ op = NoOp
    /\ callers = "memoize"
    /\ faults \in 0..MaxFaults
    /\ mcond \in BOOLEAN
    /\ mcalls = <<>>
    /\ mstore \in {EmptyMap, keyFn(1) :> fnValue(1, 0)}
    /\ mlast = EmptyMap

SpecMemo == InitMemo /\ [][NextMemo]_vars

\* ------------------------------------------------------------------ ObjectStorage.ensure

\* the keys ensure is called with
EnsureKeys == {"k", "j"}

\* what fn() returns when call c of ensure invokes it for the key (by = 0: the data an
\* earlier run has stored)
ensureValue(key, c) == [key |-> key, by |-> c]

\* one call storage.ensure(key, fn, { signal }), suspended at
\* await this.getAttributes(key); signalled: the signal was aborted when the call was
\* made or when validate looked at it
EnsureFrame(key) ==
    [key |-> key, pc |-> "attrs", found |-> FALSE, valid |-> FALSE, computes |-> 0,
     sets |-> 0, wrote |-> FALSE, val |-> ensureValue(key, 0), signalled |-> aborted,
     err |-> ""]

EnsureSettled(c) == ecalls[c].pc \in {"done", "failed"}

\* the variables a step of ensure leaves alone
ensureRest == <<taskVars, hargs, hkeys, op, callers, memoVars, objectVars, pureVars, registryVars>>

\* the caller calls storage.ensure(key, fn), one call after the other
EnsureCall(key) ==
    /\ callers = "ensure"
    /\ Len(ecalls) < MaxEnsureCalls
    /\ \A c \in DOMAIN ecalls : EnsureSettled(c)
    /\ ecalls' = Append(ecalls, EnsureFrame(key))
    /\ UNCHANGED <<ensureRest, faults, pstore>>

\* time passes: the object under the key gets older than maxAge allows
Expire(key) ==
    /\ key \in DOMAIN pstore /\ pstore[key].valid
    /\ pstore' = [pstore EXCEPT ![key].valid = FALSE]
    /\ UNCHANGED <<ensureRest, faults, ecalls>>

\* attributes = await this.getAttributes(key): with the key it resolves and validate
\* is called, whose checkConstraints looks at the signal and calls the constraints;
\* without the key it rejects and the catch block calls fn()
EnsureGetAttributes(c) ==
    /\ ecalls[c].pc = "attrs"
    /\ ecalls' = IF ecalls[c].key \in DOMAIN pstore
                 THEN [ecalls EXCEPT ![c].pc = "validate", ![c].found = TRUE,
                                     ![c].valid = pstore[ecalls[c].key].valid,
                                     ![c].signalled = aborted]
                 ELSE [ecalls EXCEPT ![c].pc = "compute", ![c].computes = @ + 1,
                                     ![c].val = ensureValue(ecalls[c].key, c)]
    /\ UNCHANGED <<ensureRest, faults, pstore>>

\* fn() is called although the constraints pass
EnsureValidateRecomputes(c) ==
    /\ ecalls[c].pc = "validate"
    /\ ecalls' = [ecalls EXCEPT ![c].pc = "compute", ![c].computes = @ + 1,
                                 ![c].val = ensureValue(ecalls[c].key, c)]
    /\ UNCHANGED <<ensureRest, faults, pstore>>

\* validation = await this.validate(attributes, options): ok ends the call; a
\* constraint that fails throws ValidationError, a signal that was aborted makes
\* validate reject, and either way the catch block calls fn()
EnsureValidate(c) ==
    /\ ecalls[c].pc = "validate"
    /\ ecalls' = IF ecalls[c].valid /\ ~ecalls[c].signalled
                 THEN [ecalls EXCEPT ![c].pc = "done"]
                 ELSE [ecalls EXCEPT ![c].pc = "compute", ![c].computes = @ + 1,
                                     ![c].val = ensureValue(ecalls[c].key, c)]
    /\ UNCHANGED <<ensureRest, faults, pstore>>

\* await fn() resolves: this.set(key, data) encodes and calls provider.set
EnsureComputeReturn(c) ==
    /\ ecalls[c].pc = "compute"
    /\ ecalls' = [ecalls EXCEPT ![c].pc = "set", ![c].sets = @ + 1]
    /\ UNCHANGED <<ensureRest, faults, pstore>>

\* await fn() rejects and ensure removes what the provider holds under the key
EnsureComputeThrowsDeletes(c) ==
    /\ ecalls[c].pc = "compute"
    /\ faults > 0 /\ faults' = faults - 1
    /\ ecalls' = [ecalls EXCEPT ![c].pc = "failed", ![c].err = "fn"]
    /\ pstore' = [k \in DOMAIN pstore \ {ecalls[c].key} |-> pstore[k]]
    /\ UNCHANGED ensureRest

\* await fn() rejects inside the catch block: ensure rejects with the error of fn
EnsureComputeThrows(c) ==
    /\ ecalls[c].pc = "compute"
    /\ faults > 0 /\ faults' = faults - 1
    /\ ecalls' = [ecalls EXCEPT ![c].pc = "failed", ![c].err = "fn"]
    /\ UNCHANGED <<ensureRest, pstore>>

\* await this.provider.set(key, buffer, options) resolves: the object is written, new
\* and so within maxAge, and set goes on to return this.getAttributes(key); with the
\* signal aborted fs.writeFile rejects and nothing is written
EnsureSet(c) ==
    /\ ecalls[c].pc = "set"
    /\ IF aborted
       THEN /\ ecalls' = [ecalls EXCEPT ![c].pc = "failed", ![c].err = "aborted"]
            /\ UNCHANGED pstore
       ELSE /\ pstore' = (ecalls[c].key :> [data |-> ecalls[c].val, valid |-> TRUE])
                            @@ pstore
            /\ ecalls' = [ecalls EXCEPT ![c].pc = "attrs2", ![c].wrote = TRUE]
    /\ UNCHANGED <<ensureRest, faults>>

\* await this.provider.set(key, buffer) rejects: ensure rejects
EnsureSetFails(c) ==
    /\ ecalls[c].pc = "set"
    /\ faults > 0 /\ faults' = faults - 1
    /\ ecalls' = [ecalls EXCEPT ![c].pc = "failed", ![c].err = "set"]
    /\ UNCHANGED <<ensureRest, pstore>>

\* the getAttributes(key) that ends set resolves, and with it ensure
EnsureSetReturns(c) ==
    /\ ecalls[c].pc = "attrs2"
    /\ ecalls' = [ecalls EXCEPT ![c].pc = "done"]
    /\ UNCHANGED <<ensureRest, faults, pstore>>

NextEnsure ==
    \/ \E key \in EnsureKeys : EnsureCall(key)
    \/ \E key \in EnsureKeys : Expire(key)
    \/ \E c \in DOMAIN ecalls : EnsureGetAttributes(c)
    \/ \E c \in DOMAIN ecalls : EnsureValidate(c)
    \/ \E c \in DOMAIN ecalls : EnsureComputeReturn(c)
    \/ \E c \in DOMAIN ecalls : EnsureComputeThrows(c)
    \/ \E c \in DOMAIN ecalls : EnsureSet(c)
    \/ \E c \in DOMAIN ecalls : EnsureSetFails(c)
    \/ \E c \in DOMAIN ecalls : EnsureSetReturns(c)

\* an ObjectStorage with a maxAge constraint over a provider that is empty or holds
\* the object of an earlier run
InitEnsure ==
    /\ NoTasks
    /\ NoMemo
    /\ NoObjects /\ NoPure /\ NoRegistry
    /\ hargs = <<>> /\ hkeys = <<>> /\ op = NoOp
    /\ callers = "ensure"
    /\ faults \in 0..MaxFaults
    /\ pstore \in {EmptyMap, "k" :> [data |-> ensureValue("k", 0), valid |-> TRUE]}
    /\ ecalls = <<>>

SpecEnsure == InitEnsure /\ [][NextEnsure]_vars

\* ensure is called with the signal of an AbortController, which may be aborted from
\* the start
InitEnsureCancel ==
    /\ tasks = <<>> /\ entries = {} /\ tstore = <<>> /\ stores = <<>>
    /\ explicit = 0 /\ frames = <<>> /\ readFaults = 0
    /\ aborted \in BOOLEAN
    /\ NoMemo /\ NoObjects /\ NoPure /\ NoRegistry
    /\ hargs = <<>> /\ hkeys = <<>> /\ op = NoOp
    /\ callers = "ensure"
    /\ faults \in 0..MaxFaults
    /\ pstore \in {EmptyMap, "k" :> [data |-> ensureValue("k", 0), valid |-> TRUE]}
    /\ ecalls = <<>>

NextEnsureCancel == NextEnsure \/ Abort

SpecEnsureCancel == InitEnsureCancel /\ [][NextEnsureCancel]_vars

\* ------------------------------------------------------------------ concurrent callers

\* The step functions are those of the sequential specifications. PersistUnwrapRejected
\* has no step here: every argument was persisted by an earlier layer into the storage
\* all tasks share, so the arg.result() of unwrap reads it and resolves.

\* the caller calls task.result() without awaiting the calls it made before
CallConcurrently(o) ==
    /\ callers = "result"
    /\ o \in entries
    /\ Cardinality(TopCalls) < MaxConcurrent
    /\ LET st == startResult(State, o, 0, 0)
       IN  /\ frames' = st.frames
           /\ tstore' = st.tstore
           /\ stores' = st.stores
    /\ UNCHANGED <<tasks, entries, explicit, faults, aborted, readFaults, others>>

\* the caller calls memoizedFn(x) without awaiting the calls it made before
MemoCallConcurrently(x) ==
    /\ callers = "memoize"
    /\ Len(mcalls) < MaxConcurrent
    /\ mcalls' = Append(mcalls, MemoFrame(x, FALSE))
    /\ UNCHANGED <<memoRest, faults, mstore, mlast>>

\* the caller calls storage.ensure(key, fn) without awaiting the calls it made before
EnsureCallConcurrently(key) ==
    /\ callers = "ensure"
    /\ Len(ecalls) < MaxConcurrent
    /\ ecalls' = Append(ecalls, EnsureFrame(key))
    /\ UNCHANGED <<ensureRest, faults, pstore>>

NextShared ==
    \/ \E o \in DOMAIN tasks : CallConcurrently(o)
    \/ \E f \in DOMAIN frames : ResultGet(f)
    \/ \E f \in DOMAIN frames : ResultLayerRejected(f)
    \/ \E f \in DOMAIN frames : ResultLayerResolved(f)
    \/ \E f \in DOMAIN frames : ResultGet2(f)
    \/ \E f \in DOMAIN frames : PersistGet(f)
    \/ \E f \in DOMAIN frames : PersistInvoke(f)
    \/ \E f \in DOMAIN frames : FnReturn(f)
    \/ \E f \in DOMAIN frames : FnThrow(f)
    \/ \E f \in DOMAIN frames : PersistSet(f)
    \/ \E f \in DOMAIN frames : PersistSetFails(f)
    \/ \E x \in MemoArgs : MemoCallConcurrently(x)
    \/ \E c \in DOMAIN mcalls : MemoGetHit(c)
    \/ \E c \in DOMAIN mcalls : MemoGetFails(c)
    \/ \E c \in DOMAIN mcalls : MemoFnReturn(c)
    \/ \E c \in DOMAIN mcalls : MemoFnThrow(c)
    \/ \E c \in DOMAIN mcalls : MemoSet(c)
    \/ \E c \in DOMAIN mcalls : MemoSetFails(c)
    \/ \E key \in EnsureKeys : EnsureCallConcurrently(key)
    \/ \E c \in DOMAIN ecalls : EnsureGetAttributes(c)
    \/ \E c \in DOMAIN ecalls : EnsureValidate(c)
    \/ \E c \in DOMAIN ecalls : EnsureComputeReturn(c)
    \/ \E c \in DOMAIN ecalls : EnsureComputeThrows(c)
    \/ \E c \in DOMAIN ecalls : EnsureSet(c)
    \/ \E c \in DOMAIN ecalls : EnsureSetFails(c)
    \/ \E c \in DOMAIN ecalls : EnsureSetReturns(c)

\* the graph whose tasks the concurrent callers call result() on: square(5) created
\* twice, two objects of one key
SharedGraphs == {Graphs[1]}

\* Callers of one kind over one storage that holds nothing: memoized calls without a
\* condition, calls of ensure, or calls of result() on tasks that were all given the
\* same explicit storage.
InitShared ==
    /\ callers \in {"memoize", "ensure", "result"}
    /\ faults \in 0..MaxFaults
    /\ aborted = FALSE /\ readFaults = 0
    /\ hargs = <<>> /\ hkeys = <<>> /\ op = NoOp
    /\ NoMemo /\ NoEnsure
    /\ NoObjects /\ NoPure /\ NoRegistry
    /\ frames = <<>>
    /\ IF callers = "result"
       THEN \E g \in SharedGraphs :
                /\ tasks = [o \in DOMAIN g.props |->
                                [fn |-> g.props[o].fn, args |-> g.props[o].args,
                                 key |-> constructKey(g.props, o)]]
                /\ entries = g.entries
                /\ tstore = [o \in DOMAIN g.props |-> 1]
                /\ explicit = 1
                /\ stores = <<EmptyMap>>
       ELSE /\ tasks = <<>> /\ entries = {} /\ tstore = <<>> /\ stores = <<>>
            /\ explicit = 0

SpecShared == InitShared /\ [][NextShared]_vars

\* ------------------------------------------------------------------ transforms

\* the Data of an ObjectStorage: a Buffer (s holds its bytes), or what the transforms
\* decode it to: a string (s holds its characters), a number, or null
Buf(b) == [t |-> "buffer", n |-> 0, s |-> b]
JStr(s) == [t |-> "str", n |-> 0, s |-> s]
JNum(n) == [t |-> "num", n |-> n, s |-> <<>>]
JNull == [t |-> "null", n |-> 0, s |-> <<>>]

\* data == null || data === undefined, the test behind ??
isNullish(data) == data.t = "null"

\* what a decode that throws leaves behind
DecodeError == [t |-> "error", n |-> 0, s |-> <<>>]

\* JSON.stringify of a JSON value
stringifyJson(v) ==
    CASE v.t = "null" -> <<"n", "u", "l", "l">>
      [] v.t = "num" -> stringifyNumber(v.n)
      [] OTHER -> stringifyString(v.s)

\* the number a sequence of decimal digits denotes
RECURSIVE parseDigits(_, _)
parseDigits(chars, acc) ==
    IF chars = <<>> THEN acc
    ELSE parseDigits(Tail(chars),
            10 * acc + (CHOOSE d \in 0..9 : DigitChars[d + 1] = Head(chars)))

\* JSON.parse of a text: null, a string in quotes, or a number; else a SyntaxError
parseJson(chars) ==
    IF chars = <<"n", "u", "l", "l">> THEN JNull
    ELSE IF Len(chars) >= 2 /\ Head(chars) = "\"" /\ Last(chars) = "\""
    THEN JStr(SubSeq(chars, 2, Len(chars) - 1))
    ELSE IF chars # <<>> /\ \A i \in DOMAIN chars : chars[i] \in Range(DigitChars)
    THEN JNum(parseDigits(chars, 0))
    ELSE DecodeError

\* Buffer.from(str, "utf-16le"): two bytes per character, the low byte first
toUtf16le(chars) == Concat([i \in DOMAIN chars |-> <<chars[i], "00">>])

\* buffer.toString("utf-16le"): one character per pair of bytes
fromUtf16le(bytes) == [i \in 1..(Len(bytes) \div 2) |-> bytes[2 * i - 1]]

\* transforms.encode(data); the storage without transforms has no encode
encode(transforms, data) ==
    CASE transforms = "text" -> Buf(data.s)
      [] transforms = "json" -> Buf(toUtf16le(stringifyJson(data)))
      [] OTHER -> JNull

\* transforms.decode(buffer), with a schema that accepts null, numbers and strings;
\* the storage without transforms has no decode
decode(transforms, bytes) ==
    CASE transforms = "text" -> JStr(bytes)
      [] transforms = "json" -> parseJson(fromUtf16le(bytes))
      [] OTHER -> JNull

\* (await this.transforms?.decode(buffer)) ?? (buffer as Data)
decoded(transforms, bytes) ==
    LET data == decode(transforms, bytes)
    IN  IF isNullish(data) THEN Buf(bytes) ELSE data

\* (await this.transforms?.encode(data)) ?? (data as Buffer)
encoded(transforms, data) ==
    LET buffer == encode(transforms, data)
    IN  IF isNullish(buffer) THEN data.s ELSE buffer.s

\* ------------------------------------------------------------------ constraints

\* the duration of the maxAge constraint of the storages, in milliseconds
MaxAgeMs == 1
\* the size from which on the size constraint fails, in bytes
MaxSize == 4

\* the constraints a storage can be given: maxAge(MaxAgeMs) and
\* createConstraint(({ size }) => size < MaxSize, "Too big")
Constraints == {"age", "small"}

\* a Duration: a number (unit "number") or { ms }, { seconds }, { minutes },
\* { hours }, { days }
Duration(unit, n) == [unit |-> unit, n |-> n]

\* durationToMs(duration)
durationToMs(duration) ==
    CASE duration.unit = "number" -> duration.n
      [] duration.unit = "ms" -> duration.n
      [] duration.unit = "seconds" -> duration.n * 1000
      [] duration.unit = "minutes" -> duration.n * 60 * 1000
      [] duration.unit = "hours" -> duration.n * 60 * 60 * 1000
      [] OTHER -> duration.n * 24 * 60 * 60 * 1000

\* a maxAge that lets an entry live one millisecond longer
maxAgeInclusive(duration, attributes, time) ==
    time - attributes.mtimeMs <= durationToMs(duration)

\* maxAge(duration)(attributes), called when Date.now() returns time
maxAge(duration, attributes, time) ==
    time - attributes.mtimeMs < durationToMs(duration)

\* constraint(attributes)
passes(constraint, attributes, time) ==
    IF constraint = "age" THEN maxAge(Duration("ms", MaxAgeMs), attributes, time)
    ELSE attributes.size < MaxSize

\* constraint.message
message(constraint) == IF constraint = "age" THEN "Max age exceeded" ELSE "Too big"

\* a check that reports the first constraint that fails only
checkConstraintsFirstOnly(constraints, attributes, time) ==
    LET failed == SelectSeq(constraints, LAMBDA c : ~passes(c, attributes, time))
    IN  IF failed = <<>> THEN <<>> ELSE <<message(failed[1])>>

\* checkConstraints without a signal: the errors of the constraints that were
\* rejected, in the order of the constraints; none stands for { ok: true }
checkConstraints(constraints, attributes, time) ==
    LET failed == SelectSeq(constraints, LAMBDA c : ~passes(c, attributes, time))
    IN  [i \in DOMAIN failed |-> message(failed[i])]

\* ------------------------------------------------------------------ maxAge

Units == {"number", "ms", "seconds", "minutes", "hours", "days"}

\* the times a file was written at
WriteTimes == {0, 5}

\* the constraint maxAge(duration) is called with the attributes of a file written at
\* mtimeMs, at a time around the end of the duration
MaxAgeCall(duration, mtimeMs, time) ==
    /\ callers = "maxAge"
    /\ fargs' = <<"maxAge", duration, mtimeMs, time>>
    /\ fres' = <<maxAge(duration, [mtimeMs |-> mtimeMs, size |-> 0], time)>>
    /\ UNCHANGED <<taskVars, faults, hargs, hkeys, op, callers, memoVars, ensureVars,
                   objectVars, registryVars>>

\* the durations the caller passes
Durations == {Duration(u, m) : u \in Units, m \in 0..MaxDuration}

NextAge ==
    \E duration \in Durations, mtimeMs \in WriteTimes, d \in -2..1 :
        MaxAgeCall(duration, mtimeMs,
                   IF d = -2 THEN mtimeMs ELSE mtimeMs + durationToMs(duration) + d)

InitAge ==
    /\ NoTasks /\ NoMemo /\ NoEnsure /\ NoObjects /\ NoPure /\ NoRegistry
    /\ hargs = <<>> /\ hkeys = <<>> /\ op = NoOp
    /\ callers = "maxAge"
    /\ faults = 0

SpecAge == InitAge /\ [][NextAge]_vars

\* ------------------------------------------------------------------ ObjectStorage

Instance(provider, constraints, transforms) ==
    [provider |-> provider, constraints |-> constraints, transforms |-> transforms]

\* the attributes the provider reports for a file
Attributes(bytes, time) == [mtimeMs |-> time, size |-> Len(bytes)]

File(bytes, time) == [buffer |-> bytes, attributes |-> Attributes(bytes, time)]

\* the keys get and set are called with
ObjectKeys == {"k", "j"}

\* the place of a file name in the listing of the directory
KeyOrder(key) == CHOOSE n \in 1..3 : <<"i", "j", "k">>[n] = key

\* the values set is called with: Buffers without transforms, strings with an
\* encoding, JSON values with a schema
DataOf(transforms) ==
    CASE transforms = "text" -> {JStr(<<>>), JStr(<<"a", "b">>)}
      [] transforms = "json" -> {JNull, JNum(0), JNum(12), JStr(<<"a">>)}
      [] OTHER -> {Buf(<<>>), Buf(<<"a">>), Buf(<<"a", "b", "c", "d">>)}

\* what deleteInvalidEntries returns: the numbers of keys kept, deleted and failed
\* (listed = -1: undefined, the return without constraints)
NoCounts == [ok |-> 0, deleted |-> 0, errors |-> 0, listed |-> -1]

\* one call of a method of instance i, suspended at its first await
ObjectFrame(method, i, key, data, pc) ==
    [op |-> method, inst |-> i, key |-> key, data |-> data, pc |-> pc, err |-> "",
     errors |-> <<>>, reads |-> 0, attributes |-> Attributes(<<>>, 0), at |-> 0,
     buffer |-> <<>>, val |-> JNull, workers |-> <<>>, counts |-> NoCounts]

ObjectSettled(c) == ocalls[c].pc \in {"done", "failed"}

\* the variables a step of a call of get or set leaves alone
objectRest == <<taskVars, faults, hargs, hkeys, op, callers, memoVars, ensureVars, pureVars, registryVars>>

\* time passes
Tick ==
    /\ callers = "objects"
    /\ now < MaxNow
    /\ now' = now + 1
    /\ UNCHANGED <<objectRest, insts, objects, ocalls>>

\* the caller calls storage.get(key), one call after the other
GetCall(i, key) ==
    /\ callers = "objects"
    /\ Len(ocalls) < MaxObjectCalls
    /\ \A c \in DOMAIN ocalls : ObjectSettled(c)
    /\ ocalls' = Append(ocalls, ObjectFrame("get", i, key, JNull, "attrs"))
    /\ UNCHANGED <<objectRest, insts, objects, now>>

\* the caller calls storage.set(key, data), one call after the other
SetCall(i, key, data) ==
    /\ callers = "objects"
    /\ Len(ocalls) < MaxObjectCalls
    /\ \A c \in DOMAIN ocalls : ObjectSettled(c)
    /\ data \in DataOf(insts[i].transforms)
    /\ ocalls' = Append(ocalls, ObjectFrame("set", i, key, data, "encode"))
    /\ UNCHANGED <<objectRest, insts, objects, now>>

\* attributes = await this.getAttributes(key): fs.stat rejects for a missing file
GetAttributes(c) ==
    /\ ocalls[c].op = "get" /\ ocalls[c].pc = "attrs"
    /\ ocalls' = IF ocalls[c].key \in DOMAIN objects
                 THEN [ocalls EXCEPT ![c].pc = "validate",
                           ![c].attributes = objects[ocalls[c].key].attributes]
                 ELSE [ocalls EXCEPT ![c].pc = "failed", ![c].err = "notfound"]
    /\ UNCHANGED <<objectRest, insts, objects, now>>

\* validation = await this.validate(attributes, { signal }); if (!validation.ok)
\* throw new ValidationError(validation.errors); else this.provider.get is called
GetValidate(c) ==
    /\ ocalls[c].op = "get" /\ ocalls[c].pc = "validate"
    /\ LET errors == checkConstraints(insts[ocalls[c].inst].constraints,
                                      ocalls[c].attributes, now)
       IN  ocalls' = IF errors # <<>>
                     THEN [ocalls EXCEPT ![c].pc = "failed", ![c].err = "validation",
                               ![c].errors = errors, ![c].at = now]
                     ELSE [ocalls EXCEPT ![c].pc = "read", ![c].reads = @ + 1,
                               ![c].at = now]
    /\ UNCHANGED <<objectRest, insts, objects, now>>

\* buffer = await this.provider.get(key, { signal }); decode is called
GetRead(c) ==
    /\ ocalls[c].op = "get" /\ ocalls[c].pc = "read"
    /\ ocalls' = IF ocalls[c].key \in DOMAIN objects
                 THEN [ocalls EXCEPT ![c].pc = "decode",
                           ![c].buffer = objects[ocalls[c].key].buffer]
                 ELSE [ocalls EXCEPT ![c].pc = "failed", ![c].err = "notfound"]
    /\ UNCHANGED <<objectRest, insts, objects, now>>

\* data = (await this.transforms?.decode(buffer)) ?? buffer; return data
GetDecode(c) ==
    /\ ocalls[c].op = "get" /\ ocalls[c].pc = "decode"
    /\ LET data == decoded(insts[ocalls[c].inst].transforms, ocalls[c].buffer)
       IN  ocalls' = IF data = DecodeError
                     THEN [ocalls EXCEPT ![c].pc = "failed", ![c].err = "decode"]
                     ELSE [ocalls EXCEPT ![c].pc = "done", ![c].val = data]
    /\ UNCHANGED <<objectRest, insts, objects, now>>

\* buffer = (await this.transforms?.encode(data)) ?? data; provider.set is called
SetEncode(c) ==
    /\ ocalls[c].op = "set" /\ ocalls[c].pc = "encode"
    /\ ocalls' = [ocalls EXCEPT ![c].pc = "write",
                      ![c].buffer = encoded(insts[ocalls[c].inst].transforms, ocalls[c].data)]
    /\ UNCHANGED <<objectRest, insts, objects, now>>

\* await this.provider.set(key, buffer, options): the file is written
SetWrite(c) ==
    /\ ocalls[c].op = "set" /\ ocalls[c].pc = "write"
    /\ objects' = (ocalls[c].key :> File(ocalls[c].buffer, now)) @@ objects
    /\ ocalls' = [ocalls EXCEPT ![c].pc = "attrs"]
    /\ UNCHANGED <<objectRest, insts, now>>

\* return this.getAttributes(key): fs.stat rejects for a file that is gone by now
SetReturns(c) ==
    /\ ocalls[c].op = "set" /\ ocalls[c].pc = "attrs"
    /\ ocalls' = IF ocalls[c].key \in DOMAIN objects
                 THEN [ocalls EXCEPT ![c].pc = "done",
                           ![c].attributes = objects[ocalls[c].key].attributes]
                 ELSE [ocalls EXCEPT ![c].pc = "failed", ![c].err = "notfound"]
    /\ UNCHANGED <<objectRest, insts, objects, now>>

NextObject ==
    \/ Tick
    \/ \E i \in DOMAIN insts, key \in ObjectKeys : GetCall(i, key)
    \/ \E i \in DOMAIN insts, key \in ObjectKeys :
          \E data \in DataOf(insts[i].transforms) : SetCall(i, key, data)
    \/ \E c \in DOMAIN ocalls : GetAttributes(c)
    \/ \E c \in DOMAIN ocalls : GetValidate(c)
    \/ \E c \in DOMAIN ocalls : GetRead(c)
    \/ \E c \in DOMAIN ocalls : GetDecode(c)
    \/ \E c \in DOMAIN ocalls : SetEncode(c)
    \/ \E c \in DOMAIN ocalls : SetWrite(c)
    \/ \E c \in DOMAIN ocalls : SetReturns(c)

\* the lists of constraints a storage is made with
ConstraintLists == {<<>>, <<"age">>, <<"small">>, <<"age", "small">>, <<"small", "age">>}

\* what an earlier run left in the directory
SeededObjects ==
    {EmptyMap,
     "k" :> File(<<"a">>, 0),
     "k" :> File(<<"a", "b", "c", "d">>, 0),
     "k" :> File(toUtf16le(<<"1", "2">>), 0)}

\* one ObjectStorage over a directory
InitObject ==
    /\ NoTasks /\ NoMemo /\ NoEnsure /\ NoPure /\ NoRegistry
    /\ hargs = <<>> /\ hkeys = <<>> /\ op = NoOp
    /\ callers = "objects"
    /\ faults = 0
    /\ \E cs \in ConstraintLists, tr \in {"none", "text", "json"} :
          insts = <<Instance(1, cs, tr)>>
    /\ objects \in SeededObjects
    /\ now = 0
    /\ ocalls = <<>>

SpecObject == InitObject /\ [][NextObject]_vars

\* ------------------------------------------------------------------ deleteInvalidEntries

\* a set as a list, in the order the directory is read
RECURSIVE SetToSeq(_)
SetToSeq(S) ==
    IF S = {} THEN <<>>
    ELSE LET x == CHOOSE y \in S : \A z \in S : y = z \/ KeyOrder(y) < KeyOrder(z)
         IN  <<x>> \o SetToSeq(S \ {x})

\* the async callback of keys.map for one key, suspended at await this.has(key)
Worker(key) == [key |-> key, pc |-> "has", attributes |-> Attributes(<<>>, 0), at |-> 0]

WorkerSettled(w) == w.pc \in {"kept", "deleted", "failed"}

\* the caller calls storage.deleteInvalidEntries(): without constraints it warns and
\* returns undefined, else this.keys() is called
SweepCall(i) ==
    /\ callers = "objects"
    /\ \A c \in DOMAIN ocalls : ocalls[c].op # "sweep"
    /\ ocalls' = Append(ocalls,
                    ObjectFrame("sweep", i, "", JNull,
                                IF insts[i].constraints = <<>> THEN "done" ELSE "keys"))
    /\ UNCHANGED <<objectRest, insts, objects, now>>

\* the caller calls storage.delete(key) while the sweep runs
DeleteCall(i, key) ==
    /\ callers = "objects"
    /\ Len(ocalls) < MaxObjectCalls
    /\ \A c \in DOMAIN ocalls : ocalls[c].op # "delete"
    /\ ocalls' = Append(ocalls, ObjectFrame("delete", i, key, JNull, "unlink"))
    /\ UNCHANGED <<objectRest, insts, objects, now>>

\* await this.provider.delete(key, options): fs.unlink rejects for a missing file
Delete(c) ==
    /\ ocalls[c].op = "delete" /\ ocalls[c].pc = "unlink"
    /\ IF ocalls[c].key \in DOMAIN objects
       THEN /\ objects' = [k \in DOMAIN objects \ {ocalls[c].key} |-> objects[k]]
            /\ ocalls' = [ocalls EXCEPT ![c].pc = "done"]
       ELSE /\ ocalls' = [ocalls EXCEPT ![c].pc = "failed", ![c].err = "notfound"]
            /\ UNCHANGED objects
    /\ UNCHANGED <<objectRest, insts, now>>

\* keys = await this.keys() resolves; keys.map starts the callback of every key, which
\* runs up to its await this.has(key)
SweepKeys(c) ==
    /\ ocalls[c].op = "sweep" /\ ocalls[c].pc = "keys"
    /\ LET keys == SetToSeq(DOMAIN objects)
       IN  ocalls' = [ocalls EXCEPT ![c].pc = "workers",
                         ![c].workers = [n \in DOMAIN keys |-> Worker(keys[n])],
                         ![c].counts = [NoCounts EXCEPT !.listed = Len(keys)]]
    /\ UNCHANGED <<objectRest, insts, objects, now>>

\* exists = await this.has(key); if (!exists) throw Error(`Key not found: ${key}`);
\* else getAttributes is called
WorkerHas(c, n) ==
    /\ ocalls[c].op = "sweep" /\ ocalls[c].pc = "workers"
    /\ ocalls[c].workers[n].pc = "has"
    /\ ocalls' = [ocalls EXCEPT ![c].workers[n].pc =
                      IF ocalls[c].workers[n].key \in DOMAIN objects THEN "attrs"
                      ELSE "failed"]
    /\ UNCHANGED <<objectRest, insts, objects, now>>

\* attributes = await this.getAttributes(key); validate is called
WorkerAttributes(c, n) ==
    /\ ocalls[c].op = "sweep" /\ ocalls[c].pc = "workers"
    /\ ocalls[c].workers[n].pc = "attrs"
    /\ LET key == ocalls[c].workers[n].key
       IN  ocalls' = IF key \in DOMAIN objects
                     THEN [ocalls EXCEPT ![c].workers[n].pc = "validate",
                               ![c].workers[n].attributes = objects[key].attributes]
                     ELSE [ocalls EXCEPT ![c].workers[n].pc = "failed"]
    /\ UNCHANGED <<objectRest, insts, objects, now>>

\* every key is deleted, valid or not
WorkerValidateDeletesAll(c, n) ==
    /\ ocalls[c].op = "sweep" /\ ocalls[c].pc = "workers"
    /\ ocalls[c].workers[n].pc = "validate"
    /\ ocalls' = [ocalls EXCEPT ![c].workers[n].pc = "delete", ![c].workers[n].at = now]
    /\ UNCHANGED <<objectRest, insts, objects, now>>

\* validation = await this.validate(attributes, { signal }); if (validation.ok)
\* return { deleted: false }; else this.delete(key) is called
WorkerValidate(c, n) ==
    /\ ocalls[c].op = "sweep" /\ ocalls[c].pc = "workers"
    /\ ocalls[c].workers[n].pc = "validate"
    /\ LET errors == checkConstraints(insts[ocalls[c].inst].constraints,
                                      ocalls[c].workers[n].attributes, now)
       IN  ocalls' = [ocalls EXCEPT ![c].workers[n].at = now,
                         ![c].workers[n].pc = IF errors = <<>> THEN "kept" ELSE "delete"]
    /\ UNCHANGED <<objectRest, insts, objects, now>>

\* await this.delete(key, { signal }) resolves: return { deleted: true }; it rejects
\* for a file that is gone
WorkerDelete(c, n) ==
    /\ ocalls[c].op = "sweep" /\ ocalls[c].pc = "workers"
    /\ ocalls[c].workers[n].pc = "delete"
    /\ LET key == ocalls[c].workers[n].key
       IN  IF key \in DOMAIN objects
           THEN /\ objects' = [k \in DOMAIN objects \ {key} |-> objects[k]]
                /\ ocalls' = [ocalls EXCEPT ![c].workers[n].pc = "deleted"]
           ELSE /\ ocalls' = [ocalls EXCEPT ![c].workers[n].pc = "failed"]
                /\ UNCHANGED objects
    /\ UNCHANGED <<objectRest, insts, now>>

\* await this.delete(key, { signal }) rejects, the file still there
WorkerDeleteFails(c, n) ==
    /\ ocalls[c].op = "sweep" /\ ocalls[c].pc = "workers"
    /\ ocalls[c].workers[n].pc = "delete"
    /\ faults > 0 /\ faults' = faults - 1
    /\ ocalls' = [ocalls EXCEPT ![c].workers[n].pc = "failed"]
    /\ UNCHANGED <<taskVars, hargs, hkeys, op, callers, memoVars, ensureVars, pureVars, registryVars,
                   insts, objects, now>>

\* await Promise.allSettled(...) resolves: the results are counted and returned
SweepReturns(c) ==
    /\ ocalls[c].op = "sweep" /\ ocalls[c].pc = "workers"
    /\ \A n \in DOMAIN ocalls[c].workers : WorkerSettled(ocalls[c].workers[n])
    /\ LET count(pc) == Cardinality({n \in DOMAIN ocalls[c].workers :
                                         ocalls[c].workers[n].pc = pc})
       IN  ocalls' = [ocalls EXCEPT ![c].pc = "done",
                         ![c].counts = [@ EXCEPT !.ok = count("kept"),
                                                 !.deleted = count("deleted"),
                                                 !.errors = count("failed")]]
    /\ UNCHANGED <<objectRest, insts, objects, now>>

NextSweep ==
    \/ Tick
    \/ \E i \in DOMAIN insts : SweepCall(i)
    \/ \E i \in DOMAIN insts, key \in DOMAIN objects : DeleteCall(i, key)
    \/ \E c \in DOMAIN ocalls : Delete(c)
    \/ \E c \in DOMAIN ocalls : SweepKeys(c)
    \/ \E c \in DOMAIN ocalls : \E n \in DOMAIN ocalls[c].workers : WorkerHas(c, n)
    \/ \E c \in DOMAIN ocalls : \E n \in DOMAIN ocalls[c].workers : WorkerAttributes(c, n)
    \/ \E c \in DOMAIN ocalls : \E n \in DOMAIN ocalls[c].workers : WorkerValidate(c, n)
    \/ \E c \in DOMAIN ocalls : \E n \in DOMAIN ocalls[c].workers : WorkerDelete(c, n)
    \/ \E c \in DOMAIN ocalls : \E n \in DOMAIN ocalls[c].workers : WorkerDeleteFails(c, n)
    \/ \E c \in DOMAIN ocalls : SweepReturns(c)

\* the files of the directory that is swept: small and new, big and new, small and old
SweptObjects ==
    {"i" :> File(<<"a">>, 1) @@ "j" :> File(<<"a", "b", "c", "d">>, 1)
        @@ "k" :> File(<<"a">>, 0),
     "j" :> File(<<"a", "b", "c", "d">>, 1) @@ "k" :> File(<<"a">>, 1),
     "k" :> File(<<"a">>, 1)}

\* one ObjectStorage over a directory with files, a millisecond after the newest
\* file was written
InitSweep ==
    /\ NoTasks /\ NoMemo /\ NoEnsure /\ NoPure /\ NoRegistry
    /\ hargs = <<>> /\ hkeys = <<>> /\ op = NoOp
    /\ callers = "objects"
    /\ faults \in 0..MaxFaults
    /\ \E cs \in ConstraintLists : insts = <<Instance(1, cs, "none")>>
    /\ objects \in SweptObjects
    /\ now = 1
    /\ ocalls = <<>>

SpecSweep == InitSweep /\ [][NextSweep]_vars

\* the buffers set is called with while the sweep runs
SweepBuffers == {Buf(<<"a">>), Buf(<<"a", "b", "c", "d">>)}

\* the caller calls storage.set(key, data), directly or through ensure(key, fn), while
\* the sweep runs
SetCallDuringSweep(i, key, data) ==
    /\ callers = "objects"
    /\ Len(ocalls) < MaxObjectCalls
    /\ \A c \in DOMAIN ocalls : ocalls[c].op # "set"
    /\ ocalls' = Append(ocalls, ObjectFrame("set", i, key, data, "encode"))
    /\ UNCHANGED <<objectRest, insts, objects, now>>

NextSweepSet ==
    \/ Tick
    \/ \E i \in DOMAIN insts : SweepCall(i)
    \/ \E i \in DOMAIN insts, key \in DOMAIN objects :
          \E data \in SweepBuffers : SetCallDuringSweep(i, key, data)
    \/ \E c \in DOMAIN ocalls : SetEncode(c)
    \/ \E c \in DOMAIN ocalls : SetWrite(c)
    \/ \E c \in DOMAIN ocalls : SetReturns(c)
    \/ \E c \in DOMAIN ocalls : SweepKeys(c)
    \/ \E c \in DOMAIN ocalls : \E n \in DOMAIN ocalls[c].workers : WorkerHas(c, n)
    \/ \E c \in DOMAIN ocalls : \E n \in DOMAIN ocalls[c].workers : WorkerAttributes(c, n)
    \/ \E c \in DOMAIN ocalls : \E n \in DOMAIN ocalls[c].workers : WorkerValidate(c, n)
    \/ \E c \in DOMAIN ocalls : \E n \in DOMAIN ocalls[c].workers : WorkerDelete(c, n)
    \/ \E c \in DOMAIN ocalls : \E n \in DOMAIN ocalls[c].workers : WorkerDeleteFails(c, n)
    \/ \E c \in DOMAIN ocalls : SweepReturns(c)

\* the directories of at most two files
InitSweepSet == InitSweep /\ Cardinality(DOMAIN objects) <= 2

SpecSweepSet == InitSweepSet /\ [][NextSweepSet]_vars

\* ------------------------------------------------------------------ derived storages

\* what a call of a with... method of instance i has returned
Derived(name, i) ==
    [name |-> name, task |-> i, deep |-> FALSE, out |-> <<Len(insts) + 1>>,
     storage |-> 0, before |-> insts]

\* the variables a with... method leaves alone
deriveRest ==
    <<taskVars, faults, hargs, hkeys, callers, memoVars, ensureVars, pureVars, registryVars, objects, now,
      ocalls>>

\* a withConstraints that forgets the transforms
WithConstraintsOnly(i, constraints) ==
    /\ Len(insts) <= MaxDerived
    /\ insts' = Append(insts, Instance(insts[i].provider, constraints, "none"))
    /\ op' = Derived("withConstraints", i)
    /\ UNCHANGED deriveRest

\* storage.withConstraints(...constraints): new ObjectStorage({ provider:
\* this.provider, transforms: this.transforms, constraints })
WithConstraints(i, constraints) ==
    /\ Len(insts) <= MaxDerived
    /\ insts' = Append(insts, Instance(insts[i].provider, constraints, insts[i].transforms))
    /\ op' = Derived("withConstraints", i)
    /\ UNCHANGED deriveRest

\* storage.withTransforms(transforms): new ObjectStorage({ provider: this.provider,
\* constraints: this.constraints, transforms })
WithTransforms(i, transforms) ==
    /\ Len(insts) <= MaxDerived
    /\ insts' = Append(insts, Instance(insts[i].provider, insts[i].constraints, transforms))
    /\ op' = Derived("withTransforms", i)
    /\ UNCHANGED deriveRest

\* storage.withEncoding(encoding): this.withTransforms(textTransforms(encoding))
WithEncoding(i) ==
    /\ Len(insts) <= MaxDerived
    /\ insts' = Append(insts, Instance(insts[i].provider, insts[i].constraints, "text"))
    /\ op' = Derived("withEncoding", i)
    /\ UNCHANGED deriveRest

\* storage.withSchema(schema): this.withTransforms(jsonTransforms(schema))
WithSchema(i) ==
    /\ Len(insts) <= MaxDerived
    /\ insts' = Append(insts, Instance(insts[i].provider, insts[i].constraints, "json"))
    /\ op' = Derived("withSchema", i)
    /\ UNCHANGED deriveRest

NextDerive ==
    \/ \E i \in DOMAIN insts, cs \in ConstraintLists : WithConstraints(i, cs)
    \/ \E i \in DOMAIN insts, tr \in {"text", "json"} : WithTransforms(i, tr)
    \/ \E i \in DOMAIN insts : WithEncoding(i)
    \/ \E i \in DOMAIN insts : WithSchema(i)

\* one ObjectStorage over one of two providers
InitDerive ==
    /\ NoTasks /\ NoMemo /\ NoEnsure /\ NoPure /\ NoRegistry
    /\ hargs = <<>> /\ hkeys = <<>> /\ op = NoOp
    /\ callers = "objects"
    /\ faults = 0
    /\ \E pr \in {1, 2}, cs \in ConstraintLists, tr \in {"none", "text", "json"} :
          insts = <<Instance(pr, cs, tr)>>
    /\ objects = EmptyMap /\ now = 0 /\ ocalls = <<>>

SpecDerive == InitDerive /\ [][NextDerive]_vars

\* ------------------------------------------------------------------ hash of structures

Leaves == {Num(l) : l \in 1..MaxLeaf}

\* objects with the properties a and b, in both orders of insertion
FlatObjects ==
    UNION {{Obj(<<Prop("a", x), Prop("b", y)>>), Obj(<<Prop("b", y), Prop("a", x)>>)} :
              x \in Leaves, y \in Leaves}

\* the structures that are hashed: numbers, flat objects, arrays of two numbers,
\* objects in an object and objects in an array
Structures ==
    Leaves \cup FlatObjects
        \cup {Arr(<<x, y>>) : x \in Leaves, y \in Leaves}
        \cup {Obj(<<Prop("a", o)>>) : o \in FlatObjects}
        \cup {Arr(<<o>>) : o \in FlatObjects}

\* the variables a call of hash leaves alone
hashRest ==
    <<taskVars, faults, hargs, hkeys, op, callers, memoVars, ensureVars, objectVars,
      registryVars>>

\* hash([x]) and hash([y]) are computed by the hash of tasks.ts, which derives the
\* keys of tasks, and by the hash of utils.ts, which derives the keys of memoize
HashStructures(x, y) ==
    /\ callers = "hash"
    /\ fargs' = <<"hash", x, y>>
    /\ fres' = <<hash(<<x>>), hash(<<y>>), utilsHash(<<x>>), utilsHash(<<y>>)>>
    /\ UNCHANGED hashRest

\* hash(values, options) is called
HashWithOptions(options) ==
    /\ callers = "hash"
    /\ fargs' = <<"options", options>>
    /\ fres' = <<hashWithOptions(options)>>
    /\ UNCHANGED hashRest

\* the options the caller passes
OptionsGiven == {HashOptions(a, e) : a \in Algorithms \cup {""}, e \in Encodings \cup {""}}

NextHash ==
    \/ \E x \in Structures, y \in Structures : HashStructures(x, y)
    \/ \E options \in OptionsGiven : HashWithOptions(options)

InitHash ==
    /\ NoTasks /\ NoMemo /\ NoEnsure /\ NoObjects /\ NoPure /\ NoRegistry
    /\ hargs = <<>> /\ hkeys = <<>> /\ op = NoOp
    /\ callers = "hash"
    /\ faults = 0

SpecHash == InitHash /\ [][NextHash]_vars

\* ------------------------------------------------------------------ Task constructor

\* fn.name of the functions the caller has: none (an arrow function in place), one of
\* blanks only, and names with and without blanks around them
FnNames == {"", " ", "f", " f", "g"}

\* String.prototype.trim on these names
trim(name) ==
    CASE name = " " -> ""
      [] name = " f" -> "f"
      [] OTHER -> name

\* the function objects: functions are compared by identity, and several carry the
\* same name
Fns == {[id |-> i, name |-> name] : i \in 1..MaxFns, name \in FnNames}

\* props.key: "" stands for a key that is not given (or is the empty string)
PropKeys == {"", "k"}

AnonymousError == "Anonymous functions require an explicit 'key'"
RegisteredError == "A function with this name is already registered"

\* what a call returns or throws, and the registry it leaves
Outcome(error, val, registry) == [error |-> error, registry |-> registry, val |-> val]

\* registerName(fn): throws for a name that is empty once trimmed and for a name that
\* another function holds; else nameRegistry.set(name, fn) and the name is returned
registerName(fn, registry) ==
    LET name == trim(fn.name)
    IN  IF name = "" THEN Outcome(AnonymousError, <<>>, registry)
        ELSE IF name \in DOMAIN registry /\ registry[name] # fn
        THEN Outcome(RegisteredError, <<>>, registry)
        ELSE Outcome("", <<name>>,
                     [n \in DOMAIN registry \cup {name} |->
                         IF n = name THEN fn ELSE registry[n]])

\* a constructor that derives the key before it looks at props.key
TaskKeyDerivedFirst(fn, args, key, registry) ==
    LET registered == registerName(fn, registry)
    IN  IF registered.error # "" THEN registered
        ELSE IF key # "" THEN Outcome("", <<key>>, registered.registry)
        ELSE Outcome("", registered.val \o <<"_">> \o hash(args), registered.registry)

\* this.key = props.key || `${registerName(this.fn)}_${hash(this.args)}`: with a key
\* that is not empty, registerName is not called
TaskKey(fn, args, key, registry) ==
    IF key # "" THEN Outcome("", <<key>>, registry)
    ELSE LET registered == registerName(fn, registry)
         IN  IF registered.error # "" THEN registered
             ELSE Outcome("", registered.val \o <<"_">> \o hash(args),
                          registered.registry)

\* new Task({ fn, args, key })
Construct(fn, args, key) ==
    LET outcome == TaskKey(fn, args, key, nameRegistry)
    IN  /\ callers = "new"
        /\ fargs' = <<"Task", fn, args, key>>
        /\ fres' = <<[error |-> outcome.error, key |-> outcome.val]>>
        /\ nameRegistry' = outcome.registry
        /\ UNCHANGED <<taskVars, faults, hargs, hkeys, op, callers, memoVars, ensureVars,
                       objectVars>>

\* props.args
NumberLists == {<<Num(x)>> : x \in 1..MaxArgs}

NextConstruct ==
    \E fn \in Fns, args \in NumberLists, key \in PropKeys : Construct(fn, args, key)

InitConstruct ==
    /\ NoTasks /\ NoMemo /\ NoEnsure /\ NoObjects /\ NoPure /\ NoRegistry
    /\ hargs = <<>> /\ hkeys = <<>> /\ op = NoOp
    /\ callers = "new"
    /\ faults = 0

SpecConstruct == InitConstruct /\ [][NextConstruct]_vars

\* ------------------------------------------------------------------ toposort of lists

\* the acyclic graphs the caller builds (their entries are of no use here)
SortGraphs ==
    {Graphs[g] : g \in 1..5} \cup
    {   \* const a = square(2); sum(a, square(a))
        [props |-> <<square(Lit(2)), square(Dep(1)), sum(Dep(1), Dep(2))>>, entries |-> {}],
        \* const a = square(2); sum(square(a), a)
        [props |-> <<square(Lit(2)), square(Dep(1)), sum(Dep(2), Dep(1))>>, entries |-> {}],
        \* const a = square(2); const b = square(a); sum(b, square(b))
        [props |-> <<square(Lit(2)), square(Dep(1)), square(Dep(2)), sum(Dep(2), Dep(3))>>,
         entries |-> {}]}

\* the lists of tasks of the graph, in any order and with repetitions
RECURSIVE ListsOf(_, _)
ListsOf(S, n) ==
    IF n = 0 THEN {<<>>}
    ELSE LET shorter == ListsOf(S, n - 1)
         IN  shorter \cup {Append(l, o) : l \in shorter, o \in S}

\* toposort(ts)
Toposort(ts) ==
    /\ callers = "toposort"
    /\ fargs' = <<"toposort", ts>>
    /\ fres' = <<toposort(ts)>>
    /\ UNCHANGED hashRest

NextSort == \E ts \in ListsOf(DOMAIN tasks, MaxInput) : Toposort(ts)

InitSort ==
    /\ \E g \in SortGraphs :
          /\ tasks = [o \in DOMAIN g.props |->
                          [fn |-> g.props[o].fn, args |-> g.props[o].args,
                           key |-> constructKey(g.props, o)]]
          /\ tstore = [o \in DOMAIN g.props |-> 0]
    /\ entries = {} /\ stores = <<>> /\ explicit = 0 /\ frames = <<>>
    /\ aborted = FALSE /\ readFaults = 0
    /\ NoMemo /\ NoEnsure /\ NoObjects /\ NoPure /\ NoRegistry
    /\ hargs = <<>> /\ hkeys = <<>> /\ op = NoOp
    /\ callers = "toposort"
    /\ faults = 0

SpecSort == InitSort /\ [][NextSort]_vars

\* ------------------------------------------------------------------ dependencyLayers

\* the tasks the caller has made before it makes object o
EarlierTasks(o) == {Dep(j) : j \in 1..(o - 1)}

\* what the caller makes as object o: square of a number or of an earlier task, sum
\* of two numbers or of two earlier tasks
PropsChoices(o) ==
    {square(x) : x \in {Lit(2)} \cup EarlierTasks(o)}
        \cup {sum(Lit(2), Lit(2))}
        \cup {sum(a, b) : a \in EarlierTasks(o), b \in EarlierTasks(o)}

\* the graphs of up to n task objects, each built from the ones before: all of them
\* acyclic, with shared dependencies and with several objects of one key
RECURSIVE BuiltGraphs(_)
BuiltGraphs(n) ==
    IF n = 0 THEN {<<>>}
    ELSE LET smaller == BuiltGraphs(n - 1)
         IN  smaller \cup {Append(P, pr) : P \in {x \in smaller : Len(x) = n - 1},
                                            pr \in PropsChoices(n)}

\* dependencyLayers(task)
DependencyLayers(o) ==
    /\ callers = "dependencyLayers"
    /\ fargs' = <<"dependencyLayers", o>>
    /\ fres' = <<dependencyLayers(o)>>
    /\ UNCHANGED hashRest

NextLayers == \E o \in DOMAIN tasks : DependencyLayers(o)

InitLayers ==
    /\ \E P \in BuiltGraphs(MaxTasks) \ {<<>>} :
          /\ tasks = [o \in DOMAIN P |->
                          [fn |-> P[o].fn, args |-> P[o].args, key |-> constructKey(P, o)]]
          /\ tstore = [o \in DOMAIN P |-> 0]
    /\ entries = {} /\ stores = <<>> /\ explicit = 0 /\ frames = <<>>
    /\ aborted = FALSE /\ readFaults = 0
    /\ NoMemo /\ NoEnsure /\ NoObjects /\ NoPure /\ NoRegistry
    /\ hargs = <<>> /\ hkeys = <<>> /\ op = NoOp
    /\ callers = "dependencyLayers"
    /\ faults = 0

SpecLayers == InitLayers /\ [][NextLayers]_vars

\* ------------------------------------------------------------------ toposort, step by step

\* the explicit keys of the tasks of a graph that may hold cycles
KeyNames == <<"a", "b", "c", "d", "e">>

\* the arguments of a task among n: no task, one, or two different ones in either order
DepLists(n) ==
    {<<>>} \cup {<<Dep(i)>> : i \in 1..n}
        \cup {<<Dep(p[1]), Dep(p[2])>> : p \in {q \in (1..n) \X (1..n) : q[1] # q[2]}}

\* the graphs of n tasks with explicit keys: acyclic ones, shared dependencies among
\* them, and cyclic ones
KeyedGraphs(n) ==
    {[o \in 1..n |-> [fn |-> "square", args |-> A[o], key |-> <<KeyNames[o]>>]] :
        A \in [1..n -> DepLists(n)]}

\* the lists given to toposort: the first task, alone, twice, or followed by the
\* second (the tasks of a graph are alike but for their arguments)
RootLists == {<<1>>, <<1, 1>>, <<1, 2>>}

\* the local variables of toposort at the top of its for loop
SortStart(ts) ==
    [pc |-> "for", rest |-> removeDuplicateTasks(ts), stack |-> <<>>, sorted |-> <<>>,
     completed |-> {}, visiting |-> {}, from |-> <<>>, to |-> <<>>]

\* the call of toposort that is running, and what a step leaves alone
Sorting == fres[1]
sortRest == <<fargs, hashRest>>

\* for (const task of ...): if (completed.has(task.key)) continue
ForSkip ==
    /\ callers = "steps" /\ Sorting.pc = "for" /\ Sorting.rest # <<>>
    /\ Key(Head(Sorting.rest)) \in Sorting.completed
    /\ fres' = <<[Sorting EXCEPT !.rest = Tail(@)]>>
    /\ UNCHANGED sortRest

\* const tasksToProcess = [task]
ForStart ==
    /\ callers = "steps" /\ Sorting.pc = "for" /\ Sorting.rest # <<>>
    /\ Key(Head(Sorting.rest)) \notin Sorting.completed
    /\ fres' = <<[Sorting EXCEPT !.rest = Tail(@), !.stack = <<Head(Sorting.rest)>>,
                                  !.pc = "while"]>>
    /\ UNCHANGED sortRest

\* return sortedTasks
ForReturn ==
    /\ callers = "steps" /\ Sorting.pc = "for" /\ Sorting.rest = <<>>
    /\ fres' = <<[Sorting EXCEPT !.pc = "done"]>>
    /\ UNCHANGED sortRest

\* while (tasksToProcess.length) is over
WhileEnd ==
    /\ callers = "steps" /\ Sorting.pc = "while" /\ Sorting.stack = <<>>
    /\ fres' = <<[Sorting EXCEPT !.pc = "for"]>>
    /\ UNCHANGED sortRest

\* if (completed.has(current.key)) { tasksToProcess.pop(); continue }
WhilePop ==
    /\ callers = "steps" /\ Sorting.pc = "while" /\ Sorting.stack # <<>>
    /\ Key(Last(Sorting.stack)) \in Sorting.completed
    /\ fres' = <<[Sorting EXCEPT !.stack = Front(@)]>>
    /\ UNCHANGED sortRest

\* the dependencies of the top of the stack that are not completed
IncompleteDeps ==
    SelectSeq(dependencies(Last(Sorting.stack)), LAMBDA d : Key(d) \notin Sorting.completed)

\* the ones of them that are being visited, the top of the stack included
VisitingDeps ==
    SelectSeq(IncompleteDeps,
              LAMBDA d : Key(d) \in Sorting.visiting \cup {Key(Last(Sorting.stack))})

\* the top of the stack is not completed
Visits ==
    /\ callers = "steps" /\ Sorting.pc = "while" /\ Sorting.stack # <<>>
    /\ Key(Last(Sorting.stack)) \notin Sorting.completed

\* a loop that gives up on every dependency that is not completed
WhileThrowAlways ==
    /\ Visits
    /\ IncompleteDeps # <<>>
    /\ fres' = <<[Sorting EXCEPT !.pc = "thrown",
                                  !.visiting = @ \cup {Key(Last(Sorting.stack))},
                                  !.from = Key(Last(Sorting.stack)),
                                  !.to = Key(Head(IncompleteDeps))]>>
    /\ UNCHANGED sortRest

\* throw new Error(`Cycle detected: ${current.key} -> ${dep.key}`)
WhileThrow ==
    /\ Visits
    /\ VisitingDeps # <<>>
    /\ fres' = <<[Sorting EXCEPT !.pc = "thrown",
                                  !.visiting = @ \cup {Key(Last(Sorting.stack))},
                                  !.from = Key(Last(Sorting.stack)),
                                  !.to = Key(Head(VisitingDeps))]>>
    /\ UNCHANGED sortRest

\* a loop that pops a task without sorting it or marking it completed
WhileCompleteForgets ==
    /\ Visits
    /\ IncompleteDeps = <<>>
    /\ fres' = <<[Sorting EXCEPT !.stack = Front(@),
                                  !.visiting = @ \ {Key(Last(Sorting.stack))}]>>
    /\ UNCHANGED sortRest

\* incompleteDeps.length === 0: pop, visiting.delete, sortedTasks.push, completed.add
WhileComplete ==
    /\ Visits
    /\ IncompleteDeps = <<>>
    /\ fres' = <<[Sorting EXCEPT !.stack = Front(@),
                                  !.visiting = @ \ {Key(Last(Sorting.stack))},
                                  !.sorted = Append(@, Last(Sorting.stack)),
                                  !.completed = @ \cup {Key(Last(Sorting.stack))}]>>
    /\ UNCHANGED sortRest

\* tasksToProcess.push(...incompleteDeps)
WhilePush ==
    /\ Visits
    /\ IncompleteDeps # <<>> /\ VisitingDeps = <<>>
    /\ fres' = <<[Sorting EXCEPT !.stack = @ \o IncompleteDeps,
                                  !.visiting = @ \cup {Key(Last(Sorting.stack))}]>>
    /\ UNCHANGED sortRest

NextSortSteps ==
    \/ ForSkip \/ ForStart \/ ForReturn
    \/ WhileEnd \/ WhilePop \/ WhileThrow \/ WhileComplete \/ WhilePush

InitSortSteps ==
    /\ tasks \in KeyedGraphs(MaxKeyed)
    /\ tstore = [o \in DOMAIN tasks |-> 0]
    /\ entries = {} /\ stores = <<>> /\ explicit = 0 /\ frames = <<>>
    /\ aborted = FALSE /\ readFaults = 0
    /\ NoMemo /\ NoEnsure /\ NoObjects /\ NoRegistry
    /\ hargs = <<>> /\ hkeys = <<>> /\ op = NoOp
    /\ callers = "steps"
    /\ faults = 0
    /\ \E ts \in RootLists :
          /\ fargs = <<"toposort", ts>>
          /\ fres = <<SortStart(ts)>>

SpecSortSteps == InitSortSteps /\ [][NextSortSteps]_vars

\* toposort is not over: it has a next step
SortRuns == Sorting.pc \in {"for", "while"}

\* a loop that runs takes its next step: WF_vars(NextSortSteps), with SortRuns as its
\* enabling condition
FairSpecSortSteps == SpecSortSteps /\ ([]<>(~SortRuns) \/ []<><<NextSortSteps>>_vars)

\* ------------------------------------------------------------------ storages per task

\* the storages the caller made and gave to its task creators
MaxStorages == 2

\* The graphs whose tasks get storages of their own: the last object is the one the
\* caller calls result() on.
OwnGraphs == <<
    \* square(square(2))
    [props |-> <<square(Lit(2)), square(Dep(1))>>, entries |-> {2}],
    \* sum(square(2), square(square(3)))
    [props |-> <<square(Lit(3)), square(Dep(1)), square(Lit(2)), sum(Dep(3), Dep(2))>>,
     entries |-> {4}],
    \* sum(square(square(2)), square(2)) with square(2) created twice
    [props |-> <<square(Lit(2)), square(Dep(1)), square(Lit(2)), sum(Dep(2), Dep(3))>>,
     entries |-> {4}]
>>

\* every task was created with one of the caller's storages or with none, and an earlier
\* run left the results of some dependencies in the storages of their tasks
InitOwnGraph ==
    \E g \in Range(OwnGraphs) :
        \E own \in [DOMAIN g.props -> 0..MaxStorages] :
            \E seeded \in SUBSET {o \in DOMAIN g.props \ g.entries : own[o] # 0} :
                /\ tasks = [o \in DOMAIN g.props |->
                                [fn |-> g.props[o].fn, args |-> g.props[o].args,
                                 key |-> constructKey(g.props, o)]]
                /\ entries = g.entries
                /\ tstore = own
                /\ explicit = MaxStorages
                /\ stores = [sid \in 1..MaxStorages |->
                                [k \in {Key(o) : o \in {x \in seeded : own[x] = sid}} |->
                                    seedValue(CHOOSE o \in seeded : Key(o) = k)]]
                /\ frames = <<>>

InitOwn ==
    /\ InitOwnGraph
    /\ faults \in 0..MaxFaults
    /\ aborted = FALSE
    /\ readFaults = 0
    /\ Idle

\* the caller calls result() on the root once
CallOnce(o) == TopCalls = {} /\ Call(o)

NextOwn ==
    \/ \E o \in DOMAIN tasks : CallOnce(o)
    \/ \E f \in DOMAIN frames : ResultGet(f)
    \/ \E f \in DOMAIN frames : ResultLayerRejected(f)
    \/ \E f \in DOMAIN frames : ResultLayerResolved(f)
    \/ \E f \in DOMAIN frames : ResultGet2(f)
    \/ \E f \in DOMAIN frames : PersistGet(f)
    \/ \E f \in DOMAIN frames : PersistUnwrapRejected(f)
    \/ \E f \in DOMAIN frames : PersistInvoke(f)
    \/ \E f \in DOMAIN frames : FnReturn(f)
    \/ \E f \in DOMAIN frames : FnThrow(f)
    \/ \E f \in DOMAIN frames : PersistSet(f)
    \/ \E f \in DOMAIN frames : PersistSetFails(f)

SpecOwn == InitOwn /\ [][NextOwn]_vars

\* ------------------------------------------------------------------ task keys

\* the values the argument lists of the hashing specification are made of: numbers,
\* a string, a task with the explicit key 1 and a task with a derived key
HashValues ==
    {Num(1), Num(2), Num(12), Num(21), Str(<<"1">>),
     TaskRef(<<"1">>), TaskRef(derivedKey("g", <<Num(2)>>))}

ArgLists == UNION {[1..n -> HashValues] : n \in 0..MaxArgs}

InitKey ==
    /\ hargs \in ArgLists \X ArgLists
    /\ hkeys = <<>>
    /\ op = NoOp
    /\ callers = ""
    /\ NoMemo
    /\ NoEnsure
    /\ NoObjects /\ NoPure /\ NoRegistry
    /\ NoTasks
    /\ faults = 0

\* new Task({ fn: f, args }) for the next of the two argument lists, without a key
NewTask ==
    /\ Len(hkeys) < Len(hargs)
    /\ hkeys' = Append(hkeys, derivedKey("f", hargs[Len(hkeys) + 1]))
    /\ UNCHANGED <<taskVars, faults, hargs, op, callers, memoVars, ensureVars, objectVars, pureVars, registryVars>>

NextKey == NewTask

SpecKey == InitKey /\ [][NextKey]_vars

\* ------------------------------------------------------------------ claims

Results == {f \in DOMAIN frames : frames[f].kind = "result"}
Persists == {f \in DOMAIN frames : frames[f].kind = "persist"}

\* the calls on whose behalf, directly or through other calls, call f was made
RECURSIVE Ancestors(_)
Ancestors(f) ==
    IF frames[f].parent = 0 THEN {} ELSE {frames[f].parent} \cup Ancestors(frames[f].parent)

\* C1: on an acyclic graph, when fn is invoked every direct dependency has its result
\* in its storage, fn receives exactly those stored values in argument order with the
\* literals unchanged, and what result() returns is fn applied to the resolved
\* arguments (sum(square(2), square(3)) returns 13).
C1_FnReceivesStoredResults ==
    LET cyclic == CyclicTasks IN
    /\ \A f \in Persists :
          (frames[f].invoked /\ frames[f].task \notin cyclic) =>
             LET as == tasks[frames[f].task].args
             IN  /\ Len(frames[f].args) = Len(as)
                 /\ \A i \in DOMAIN as :
                       IF isTask(as[i])
                       THEN /\ tstore[as[i].v] # 0
                            /\ Key(as[i].v) \in DOMAIN stores[tstore[as[i].v]]
                            /\ frames[f].args[i] = stores[tstore[as[i].v]][Key(as[i].v)]
                       ELSE frames[f].args[i] = as[i].v
    /\ \A f \in Persists :
          (frames[f].pc \in {"set", "done"} /\ frames[f].invoked) =>
             frames[f].val = apply(tasks[frames[f].task].fn, frames[f].args)
    /\ \A f \in Results :
          (frames[f].pc = "done" /\ frames[f].task \notin cyclic) =>
             frames[f].val = valueOf(frames[f].task)

\* sum(square(2), square(3)) was computed from 4 and 9 and result() returned 13
C1_Witness ==
    \E f \in TopCalls, p \in Persists :
        /\ frames[f].pc = "done" /\ frames[f].val = 13
        /\ frames[p].top = f /\ frames[p].task = frames[f].task
        /\ frames[p].args = <<4, 9>>

\* C2 as stated: on a graph with a cycle result() fails with the cycle error, and the
\* call invokes no task function and writes nothing.
C2_CyclicResultFails ==
    LET cyclic == CyclicTasks IN
    \A f \in Results :
        frames[f].task \in cyclic =>
            /\ frames[f].pc \in {"get", "failed"}
            /\ frames[f].pc = "failed" => frames[f].err = "cycle"
            /\ \A c \in DOMAIN frames :
                  f \in Ancestors(c) => ~frames[c].invoked /\ ~frames[c].wrote

\* C2, amended: on a graph with a cycle, result() on a root whose key is not in its
\* storage fails with the cycle error; with the key in the storage it returns the
\* stored value; either way the call starts no persist, invokes no task function and
\* writes nothing.
C2_CyclicResultFailsUnlessCached ==
    LET cyclic == CyclicTasks IN
    \A f \in Results :
        frames[f].task \in cyclic =>
            /\ ~frames[f].cached =>
                  /\ frames[f].pc \in {"get", "failed"}
                  /\ frames[f].pc = "failed" => frames[f].err = "cycle"
            /\ frames[f].cached =>
                  /\ frames[f].pc \in {"get", "done"}
                  /\ frames[f].pc = "done" =>
                        frames[f].val = stores[frames[f].store][Key(frames[f].task)]
            /\ Children(f) = {}

\* result() on a cyclic graph, not cached, has thrown the cycle error
C2_Witness ==
    \E f \in Results :
        /\ Cyclic(frames[f].task) /\ ~frames[f].cached
        /\ frames[f].pc = "failed" /\ frames[f].err = "cycle"

\* C3: no persist of layer N+1 starts before every persist of layer N has completed.
C3_LayerBarrier ==
    \A f \in Results : \A c \in Children(f) :
        \A l \in 1..(frames[c].layer - 1) :
            \A t \in Range(frames[f].layers[l]) :
                \E d \in Children(f) :
                    /\ frames[d].task = t /\ frames[d].layer = l
                    /\ frames[d].pc = "done"

\* a persist of the third layer has started while result() awaits that layer
C3_Witness ==
    \E f \in Results : \E c \in Children(f) :
        /\ frames[f].pc = "layer" /\ frames[c].layer = 3
        /\ Len(frames[f].layers[1]) = 2

\* C4: with the root's key in its storage when result() is called, result() returns
\* the stored value without building the graph: no persist is started, no task
\* function is invoked, nothing is written.
C4_CachedRootReturnsStored ==
    \A f \in Results :
        frames[f].cached =>
            /\ frames[f].pc \in {"get", "done"}
            /\ frames[f].layers = <<>>
            /\ Children(f) = {}
            /\ frames[f].pc = "done" =>
                  frames[f].val = stores[frames[f].store][Key(frames[f].task)]

\* a call of the caller found the root of a graph with dependencies in the storage
C4_Witness ==
    \E f \in TopCalls :
        /\ frames[f].cached /\ frames[f].pc = "done"
        /\ argTasks(frames[f].task) # <<>>

\* C5 as stated: without explicit storage, once result() of a task has returned, a
\* second task created with the same argument returns the same value from result()
\* without the function being invoked again.
C5_SecondTaskReusesDefaultStorage ==
    \A f1 \in TopCalls, f2 \in TopCalls :
        ( /\ f1 < f2
          /\ frames[f1].pc = "done"
          /\ Key(frames[f1].task) = Key(frames[f2].task)
          /\ frames[f1].store > explicit /\ frames[f2].store > explicit ) =>
            /\ \A c \in DOMAIN frames : frames[c].top = f2 => ~frames[c].invoked
            /\ frames[f2].pc = "done" => frames[f2].val = frames[f1].val

\* C6 as stated: within one failure-free result() call the function of a key is
\* invoked at most once, also with several Task objects of that key in the graph.
C6_OneInvocationPerKey ==
    \A t \in TopCalls :
        (\A c \in DOMAIN frames : frames[c].top = t => frames[c].pc # "failed") =>
            \A c1 \in Persists, c2 \in Persists :
                ( /\ frames[c1].top = t /\ frames[c2].top = t
                  /\ frames[c1].invoked /\ frames[c2].invoked
                  /\ Key(frames[c1].task) = Key(frames[c2].task) ) => c1 = c2

\* C7 as stated: for one function, two different argument lists never yield the same
\* derived key, given a collision-free digest.
C7_DerivedKeyIdentifiesArguments ==
    (Len(hkeys) = 2 /\ hargs[1] # hargs[2]) => hkeys[1] # hkeys[2]

\* the Task objects reachable from o through argument lists
RECURSIVE ReachTasks(_, _)
ReachTasks(from, n) ==
    IF n = 0 THEN from
    ELSE ReachTasks(from \cup UNION {Range(argTasks(x)) : x \in from}, n - 1)
ReachableTasks(o) == ReachTasks({o}, Len(tasks))

\* C8 as stated: once result() is called every reachable task has a storage, also when
\* the root has an explicit one, and persist never fails with 'no storage provided'.
C8_EveryReachableTaskHasStorage ==
    /\ \A f \in Results : \A o \in ReachableTasks(frames[f].task) : tstore[o] # 0
    /\ \A p \in Persists : frames[p].err # "nostorage"

\* C9 as stated: the schedule is maximally parallel: a task's persist may start as soon
\* as all tasks it transitively depends on have completed, so no task that is ready
\* waits for a persist of a task it does not depend on.
C9_MaximallyParallel ==
    \A f \in Results :
        frames[f].pc = "layer" =>
            \A l \in (frames[f].li + 1)..Len(frames[f].layers) :
                \A t \in Range(frames[f].layers[l]) :
                    ~ ( /\ \A k \in DependsOn(Key(t)) :
                              \E d \in Children(f) :
                                  Key(frames[d].task) = k /\ frames[d].pc = "done"
                        /\ \E d \in LayerCalls(f) :
                              /\ ~Settled(d)
                              /\ Key(frames[d].task) \notin DependsOn(Key(t)) )

\* a failed call never lets the call of the caller it belongs to return, a result()
\* with a failed persist starts no later layer, and a persist that invoked fn and
\* is done has written its value
FailureIsolated ==
    /\ \A c \in DOMAIN frames :
          frames[c].pc = "failed" =>
             /\ frames[frames[c].top].pc \in {"layer", "failed"}
             /\ frames[c].parent # 0 =>
                   frames[frames[c].parent].pc \in {"layer", "unwrap", "failed"}
    /\ \A f \in Results : \A c \in Children(f) :
          frames[c].pc = "failed" => \A d \in Children(f) : frames[d].layer <= frames[c].layer
    /\ \A p \in Persists :
          (frames[p].pc = "done" /\ frames[p].invoked) =>
             /\ frames[p].wrote
             /\ has(stores, frames[p].store, Key(frames[p].task))
             /\ stores[frames[p].store][Key(frames[p].task)] = frames[p].val

AllSettled == \A f \in DOMAIN frames : Settled(f)

\* C10: when a task's fn or storage write fails during result(), the result() call
\* fails, no task of a later layer is ever started, and the siblings that had started
\* are not cancelled: every call runs to completion, and a sibling that ran fn to the
\* end has its result in storage.
C10_FailureFailsResultSiblingsComplete == []FailureIsolated /\ <>[]AllSettled

\* result() has failed with the error of fn or of the write while a sibling of the
\* failed persist, started in the same layer, is still running
C10_Witness ==
    \E f \in Results : \E c \in Children(f), d \in Children(f) :
        /\ frames[f].pc = "failed" /\ frames[f].err \in {"fn", "set"}
        /\ frames[c].pc = "failed" /\ frames[c].layer = frames[d].layer
        /\ frames[d].pc \in {"fn", "set"}

\* in this step call f starts a storage read, a storage write or a task function
Started(f) ==
    /\ frames'[f].pc \in {"get", "get2", "fn", "set"}
    /\ f \in DOMAIN frames => frames[f].pc # frames'[f].pc

\* with the signal aborted no call starts a read, a write or a task function (so the
\* value of a function that was running is not written), and the abort itself changes
\* no call: a function that is running goes on
NoNewWork ==
    /\ aborted => \A f \in DOMAIN frames' : ~Started(f)
    /\ (~aborted /\ aborted') => frames' = frames

\* C11 as stated: once the signal is aborted the calls start no further task function,
\* storage read or storage write, a running function is not interrupted, and a call
\* that has not settled yet rejects: it never resolves.
C11_AbortedCallRejects ==
    [][ /\ NoNewWork
        /\ aborted => \A f \in DOMAIN frames :
                          ~Settled(f) => frames'[f].pc # "done" ]_vars

\* C11, amended: once the signal is aborted the calls start no further task function,
\* storage read or storage write, a running function is not interrupted and its value
\* is not written; a call resolves after the abort only by the completion of the
\* storage operation that was in flight (a read that hits, the final read of result(),
\* the write of persist), and a call started after the abort rejects at once.
C11_CooperativeCancellation ==
    [][ /\ NoNewWork
        /\ aborted => \A f \in DOMAIN frames' :
                          ( /\ frames'[f].pc = "done"
                            /\ f \in DOMAIN frames => frames[f].pc # "done" ) =>
                              /\ f \in DOMAIN frames
                              /\ frames[f].pc \in {"get", "get2", "set"} ]_vars

\* the signal was aborted while a task function was running: the function ran to its
\* end, its value was not written and result() rejected with the abort
C11_Witness ==
    \E f \in TopCalls : \E p \in Persists :
        /\ aborted /\ frames[f].pc = "failed" /\ frames[f].err = "aborted"
        /\ frames[p].top = f /\ frames[p].invoked
        /\ frames[p].pc = "failed" /\ frames[p].err = "aborted"
        /\ ~has(stores, frames[p].store, Key(frames[p].task))

\* a persist whose read hit is done with no argument resolved, fn not invoked and
\* nothing written; a persist that missed and is done invoked fn and wrote
PersistHitOrComputed ==
    \A p \in Persists :
        /\ frames[p].cached =>
              /\ frames[p].pc = "done" /\ frames[p].kids = <<>> /\ Children(p) = {}
              /\ ~frames[p].invoked /\ ~frames[p].wrote
        /\ (frames[p].pc = "done" /\ ~frames[p].cached) =>
              /\ frames[p].invoked /\ frames[p].wrote
              /\ frames[p].val = apply(tasks[frames[p].task].fn, frames[p].args)
        /\ frames[p].wrote => frames[p].invoked

\* fn is invoked by a persist that has not invoked it before, and the content of a
\* storage changes only by the write of one persist, which adds the value of that
\* persist under the key of its task and changes nothing else
OneInvocationOneWrite ==
    /\ \A p \in Persists :
          (frames[p].pc # "fn" /\ frames'[p].pc = "fn") => ~frames[p].invoked
    /\ \A sid \in DOMAIN stores :
          stores'[sid] # stores[sid] =>
             \E p \in Persists :
                /\ frames[p].pc = "set" /\ frames'[p].pc = "done"
                /\ ~frames[p].wrote /\ frames[p].store = sid
                /\ stores' = [stores EXCEPT ![sid] =
                                 (Key(frames[p].task) :> frames[p].val) @@ @]

\* C12: persist() on a task whose key its storage holds returns without resolving the
\* argument tasks, invoking fn or writing; on a miss it invokes fn exactly once and
\* writes exactly one value, under the task's own key.
C12_PersistHitReturnsMissComputes ==
    []PersistHitOrComputed /\ [][OneInvocationOneWrite]_vars

\* one persist of a task with argument tasks found its key and returned, and another
\* persist of the same result() call computed and wrote its value
C12_Witness ==
    \E p \in Persists, q \in Persists :
        /\ frames[p].cached /\ frames[p].pc = "done" /\ argTasks(frames[p].task) # <<>>
        /\ frames[q].top = frames[p].top /\ frames[q].pc = "done" /\ frames[q].wrote
        /\ stores[frames[q].store][Key(frames[q].task)] = frames[q].val

\* C13 as stated: a storage read error other than key-not-found is not treated as a
\* cache miss: the call whose read failed does not go on to invoke fn, neither itself
\* nor through the persists it starts.
C13_ReadErrorIsNotAMiss ==
    \A f \in DOMAIN frames :
        frames[f].rerr =>
            /\ ~frames[f].invoked
            /\ \A c \in DOMAIN frames : f \in Ancestors(c) => ~frames[c].invoked

\* C14 as stated, for the tasks of acyclic graphs: dependencies({deep: true}) returns
\* one task per key for exactly the keys reachable through one or more argument edges,
\* dependencies() one task per key for exactly the keys of the direct argument tasks.
C14_DeepDependenciesAreTransitive ==
    (op.name = "dependencies" /\ ~Cyclic(op.task)) =>
        LET out == op.out
            keys == {Key(d) : d \in Range(out)}
        IN  /\ \A i \in DOMAIN out, j \in DOMAIN out : Key(out[i]) = Key(out[j]) => i = j
            /\ op.deep => keys = DependsOn(Key(op.task))
            /\ ~op.deep => keys = {Key(d) : d \in Range(argTasks(op.task))}

\* C15 as stated: after task.setDefaultStorage(s) every task reachable from the task
\* through argument edges has a storage: s if it had none, its previous one otherwise.
C15_SetDefaultStorageReachesAll ==
    op.name = "setDefaultStorage" =>
        \A x \in ReachableTasks(op.task) :
            /\ tstore[x] # 0
            /\ op.before[x] = 0 => tstore[x] = op.storage
            /\ op.before[x] # 0 => tstore[x] = op.before[x]

\* the calls that bypass the cache: the condition returns false for them
Bypassing(c) == mcond /\ mcalls[c].ignoreCache

\* a call with the condition forcing bypass invokes fn, whatever the cache holds
BypassInvokes ==
    \A c \in DOMAIN mcalls :
        (Bypassing(c) /\ mcalls[c].pc # "cond") => mcalls[c].invs = 1

BypassedCallUsesNoCache ==
    \A c \in DOMAIN mcalls :
        Bypassing(c) =>
            /\ mcalls[c].gets = 0 /\ mcalls[c].sets = 0 /\ mcalls[c].key = <<>>
            /\ ~mcalls[c].hit /\ ~mcalls[c].wrote /\ ~mcalls[c].setFailed
            /\ mcalls[c].pc \in {"cond", "direct", "done", "failed"}
            /\ mcalls[c].pc = "done" =>
                  mcalls[c].invs = 1 /\ mcalls[c].val = fnValue(mcalls[c].arg, c)

\* C17: when the condition is present and returns false the call bypasses the cache:
\* neither get nor set is called, no key is derived, no step of the call changes what
\* is stored, and the call returns the value of a direct call of fn.
C17_BypassTouchesNoCache ==
    /\ []BypassedCallUsesNoCache
    /\ [][\A c \in DOMAIN mcalls :
             (Bypassing(c) /\ mcalls'[c] # mcalls[c]) => mstore' = mstore]_vars

\* a call with ignoreCache has returned a value of its own while the storage holds
\* another value under the key of its argument
C17_Witness ==
    \E c \in DOMAIN mcalls :
        /\ Bypassing(c) /\ mcalls[c].pc = "done"
        /\ keyFn(mcalls[c].arg) \in DOMAIN mstore
        /\ mstore[keyFn(mcalls[c].arg)] # mcalls[c].val

\* the outcomes of a call that does not bypass the cache
MemoizedCallOutcomes ==
    \A c \in DOMAIN mcalls :
        ~Bypassing(c) =>
            /\ mcalls[c].gets <= 1 /\ mcalls[c].invs <= 1 /\ mcalls[c].sets <= 1
            /\ mcalls[c].hit =>
                  mcalls[c].pc = "done" /\ mcalls[c].invs = 0 /\ mcalls[c].sets = 0
            /\ (mcalls[c].pc = "done" /\ ~mcalls[c].hit) =>
                  /\ mcalls[c].invs = 1 /\ mcalls[c].sets = 1
                  /\ mcalls[c].val = fnValue(mcalls[c].arg, c)
                  /\ mcalls[c].wrote # mcalls[c].setFailed
            /\ mcalls[c].setFailed => mcalls[c].pc = "done" /\ ~mcalls[c].wrote
            /\ mcalls[c].pc = "failed" =>
                  mcalls[c].invs = 1 /\ mcalls[c].sets = 0 /\ ~mcalls[c].wrote
            /\ mcalls[c].pc \in {"fn", "set"} => mcalls[c].invs = 1

\* the value a hit returns is the stored one, and what is stored changes only by the
\* set of a call that computed the value, under the key of that call
MemoizedCallSteps ==
    /\ \A c \in DOMAIN mcalls :
          (~mcalls[c].hit /\ mcalls'[c].hit) => mcalls'[c].val = mstore[mcalls[c].key]
    /\ mstore' # mstore =>
          \E c \in DOMAIN mcalls :
              /\ mcalls[c].pc = "set" /\ mcalls'[c].pc = "done" /\ mcalls[c].invs = 1
              /\ mstore' = (mcalls[c].key :> mcalls[c].val) @@ mstore

\* C18: in a memoized call that is not bypassed, a get that succeeds makes the call
\* return the cached value with neither fn nor set called; a get that fails, for
\* whatever reason, makes it invoke fn exactly once and attempt set exactly once, a
\* failure of that set being swallowed so that the call still returns the fresh
\* result; a failure of fn rejects the call and nothing is written.
C18_MemoizedCallOutcomes ==
    []MemoizedCallOutcomes /\ [][MemoizedCallSteps]_vars

\* the get of a call failed, the call invoked fn, its set failed and the call returned
\* the fresh result all the same, with nothing stored under its key
C18_Witness ==
    \E c \in DOMAIN mcalls :
        /\ ~Bypassing(c) /\ mcalls[c].setFailed /\ mcalls[c].pc = "done"
        /\ mcalls[c].invs = 1 /\ mcalls[c].val = fnValue(mcalls[c].arg, c)
        /\ mcalls[c].key \notin DOMAIN mstore

\* the object was found and every constraint passed
EnsureValid(c) == ecalls[c].found /\ ecalls[c].valid

\* the outcomes of a call of ensure, and of a second call after one that succeeded
EnsureOutcomes ==
    /\ \A c \in DOMAIN ecalls :
          /\ ecalls[c].computes <= 1 /\ ecalls[c].sets <= 1
          /\ EnsureValid(c) =>
                /\ ecalls[c].pc \in {"validate", "done"}
                /\ ecalls[c].computes = 0 /\ ecalls[c].sets = 0 /\ ~ecalls[c].wrote
          /\ (~EnsureValid(c) /\ ecalls[c].pc \notin {"attrs", "validate"}) =>
                ecalls[c].computes = 1
          /\ (~EnsureValid(c) /\ ecalls[c].pc = "done") =>
                /\ ecalls[c].sets = 1 /\ ecalls[c].wrote
                /\ ecalls[c].key \in DOMAIN pstore
          /\ ecalls[c].wrote => ecalls[c].computes = 1
    /\ \A c1 \in DOMAIN ecalls, c2 \in DOMAIN ecalls :
          ( /\ c1 < c2 /\ ecalls[c1].key = ecalls[c2].key
            /\ ecalls[c1].pc = "done" /\ ecalls[c2].pc # "attrs" ) =>
              /\ ecalls[c2].found
              /\ ecalls[c2].valid => ecalls[c2].computes = 0

\* the data of the provider changes only by the write of a call that has computed,
\* which stores the result of its fn() under its key
EnsureSteps ==
    \A key \in DOMAIN pstore' :
        (key \notin DOMAIN pstore \/ pstore'[key].data # pstore[key].data) =>
            \E c \in DOMAIN ecalls :
                /\ ecalls[c].pc = "set" /\ ecalls'[c].pc = "attrs2"
                /\ ecalls[c].computes = 1 /\ ecalls[c].key = key
                /\ pstore' = (key :> [data |-> ecalls[c].val, valid |-> TRUE]) @@ pstore

\* C19: ensure(key, compute) on a key that exists with every constraint passing
\* invokes no compute and writes nothing; on a key that is missing or fails a
\* constraint it invokes compute exactly once and writes the result under the key;
\* so after an ensure that succeeded, and while the entry stays valid, a second
\* ensure of the key does not invoke its compute.
C19_EnsureComputesOnlyWhenInvalid ==
    []EnsureOutcomes /\ [][EnsureSteps]_vars

\* ensure("k", compute) found no object, invoked compute and stored its result; the
\* second ensure("k", compute2) found it valid and returned without invoking compute2
C19_Witness ==
    /\ Len(ecalls) = 2
    /\ \A c \in 1..2 : ecalls[c].key = "k" /\ ecalls[c].pc = "done"
    /\ ~ecalls[1].found /\ ecalls[1].computes = 1 /\ ecalls[1].wrote
    /\ EnsureValid(2) /\ ecalls[2].computes = 0
    /\ pstore["k"].data = ecalls[1].val

\* the persist calls that belong to the caller's call t and are of its task's key
OwnPersists(t) ==
    {f \in DOMAIN frames :
        /\ frames[f].kind = "persist" /\ frames[f].top = t
        /\ Key(frames[f].task) = Key(frames[t].task)}

\* memoized calls: one computation per call at most; the first call to have read the
\* empty storage computes; a call returns what one of the calls of its key computed;
\* the storage holds what the last write that completed has written
SharedMemoCalls ==
    /\ \A c \in DOMAIN mcalls : mcalls[c].invs <= 1 /\ mcalls[c].sets <= 1
    /\ \A c \in DOMAIN mcalls :
          mcalls[c].pc # "get" =>
              \E d \in DOMAIN mcalls : mcalls[d].key = mcalls[c].key /\ mcalls[d].invs = 1
    /\ \A c \in DOMAIN mcalls :
          mcalls[c].pc = "done" =>
              \E d \in DOMAIN mcalls :
                  /\ mcalls[d].key = mcalls[c].key /\ mcalls[d].invs = 1
                  /\ mcalls[c].val = mcalls[d].val
    /\ DOMAIN mstore = DOMAIN mlast
    /\ \A k \in DOMAIN mstore :
          /\ mstore[k] = mlast[k].val
          /\ mcalls[mlast[k].by].wrote /\ mcalls[mlast[k].by].val = mstore[k]

\* calls of ensure: one computation per call at most; the first call to have looked
\* for the missing key computes; the object is the result of a call that wrote
SharedEnsureCalls ==
    /\ \A c \in DOMAIN ecalls : ecalls[c].computes <= 1 /\ ecalls[c].sets <= 1
    /\ \A c \in DOMAIN ecalls :
          ecalls[c].pc # "attrs" =>
              \E d \in DOMAIN ecalls :
                  ecalls[d].key = ecalls[c].key /\ ecalls[d].computes = 1
    /\ \A k \in DOMAIN pstore :
          \E d \in DOMAIN ecalls :
              /\ ecalls[d].key = k /\ ecalls[d].wrote /\ ecalls[d].computes = 1
              /\ pstore[k].data = ecalls[d].val

\* calls of result(): the function of the task runs once per call at most; a call
\* that resolved returns the value of the task, which one of the calls computed; the
\* storage holds for a key what a persist of the key has written
SharedResultCalls ==
    /\ \A t \in TopCalls :
          Cardinality({f \in OwnPersists(t) : frames[f].invoked}) <= 1
    /\ \A t \in TopCalls :
          frames[t].pc = "done" =>
              /\ frames[t].val = valueOf(frames[t].task)
              /\ \E u \in TopCalls :
                    /\ Key(frames[u].task) = Key(frames[t].task)
                    /\ \E f \in OwnPersists(u) :
                          frames[f].invoked /\ frames[f].val = frames[t].val
    /\ \A sid \in DOMAIN stores : \A k \in DOMAIN stores[sid] :
          \E f \in DOMAIN frames :
              /\ frames[f].kind = "persist" /\ frames[f].wrote
              /\ Key(frames[f].task) = k /\ frames[f].val = stores[sid][k]

\* a write that completes replaces whatever the storage holds under the key by the
\* value of the writer, and nothing else changes what is stored
SharedWrites ==
    /\ \A c \in DOMAIN mcalls :
          (mcalls[c].pc = "set" /\ mcalls'[c].wrote) =>
              mstore' = (mcalls[c].key :> mcalls[c].val) @@ mstore
    /\ mstore' # mstore => \E c \in DOMAIN mcalls : mcalls[c].pc = "set" /\ mcalls'[c].wrote
    /\ \A c \in DOMAIN ecalls :
          (ecalls[c].pc = "set" /\ ecalls'[c].wrote) =>
              pstore' = (ecalls[c].key :> [data |-> ecalls[c].val, valid |-> TRUE]) @@ pstore
    /\ pstore' # pstore => \E c \in DOMAIN ecalls : ecalls[c].pc = "set" /\ ecalls'[c].wrote
    /\ \A f \in DOMAIN frames :
          (frames[f].pc = "set" /\ frames'[f].wrote) =>
              stores' = [stores EXCEPT ![frames[f].store] =
                            (Key(frames[f].task) :> frames[f].val) @@ @]
    /\ stores' # stores => \E f \in DOMAIN frames : frames[f].pc = "set" /\ frames'[f].wrote

\* C20: callers that run at the same time on a key the storage lacks (memoized calls,
\* calls of ensure, calls of result()) are not kept apart: the computation runs at
\* most once per caller and at least once, and the storage holds the value of the
\* last write that completed.
C20_NoMutualExclusionLastWriterWins ==
    /\ [](SharedMemoCalls /\ SharedEnsureCalls /\ SharedResultCalls)
    /\ [][SharedWrites]_vars

\* two memoized calls of one key have both found the storage empty, both computed and
\* both written, and the storage holds the value of the second writer
C20_Witness ==
    /\ Len(mcalls) = 2 /\ mcalls[1].key = mcalls[2].key
    /\ \A c \in 1..2 : mcalls[c].pc = "done" /\ mcalls[c].invs = 1 /\ mcalls[c].wrote
    /\ mcalls[1].val # mcalls[2].val
    /\ mstore[mcalls[1].key] = mcalls[mlast[mcalls[1].key].by].val

\* two calls of ensure of one key have both computed and both written
BothEnsureCallsComputedAndWrote ==
    /\ Len(ecalls) = 2 /\ ecalls[1].key = ecalls[2].key
    /\ \A c \in 1..2 : ecalls[c].pc = "done" /\ ecalls[c].computes = 1 /\ ecalls[c].wrote
    /\ pstore[ecalls[1].key].data \in {ecalls[1].val, ecalls[2].val}

\* two calls of result() of one key have both run the task's function and both written
BothResultCallsComputedAndWrote ==
    \E t \in TopCalls, u \in TopCalls :
        /\ t # u /\ Key(frames[t].task) = Key(frames[u].task)
        /\ frames[t].pc = "done" /\ frames[u].pc = "done"
        /\ \A x \in {t, u} :
              \E f \in OwnPersists(x) : frames[f].invoked /\ frames[f].wrote

Gets == {c \in DOMAIN ocalls : ocalls[c].op = "get"}

\* the constraints of the storage of call c that its attributes failed when they
\* were validated
FailedConstraints(c) ==
    LET cs == insts[ocalls[c].inst].constraints
    IN  {i \in DOMAIN cs : ~passes(cs[i], ocalls[c].attributes, ocalls[c].at)}

\* C21: get(key) reads the attributes and validates them before it touches the
\* payload: with a constraint that fails it fails with a ValidationError that holds
\* one error for every constraint that failed and the provider's payload read is
\* never issued; with every constraint passing, or none configured, the payload is
\* read once and decoded.
C21_GetValidatesBeforeReading ==
    \A c \in Gets :
        /\ ocalls[c].pc \in {"attrs", "validate"} => ocalls[c].reads = 0
        /\ (ocalls[c].pc \notin {"attrs", "validate"} /\ ocalls[c].err # "notfound") =>
              LET cs == insts[ocalls[c].inst].constraints
                  failed == FailedConstraints(c)
              IN  IF failed # {}
                  THEN /\ ocalls[c].pc = "failed" /\ ocalls[c].err = "validation"
                       /\ ocalls[c].reads = 0
                       /\ Len(ocalls[c].errors) = Cardinality(failed)
                       /\ \A i \in failed : message(cs[i]) \in Range(ocalls[c].errors)
                  ELSE /\ ocalls[c].reads = 1
                       /\ ocalls[c].err # "validation" /\ ocalls[c].errors = <<>>
                       /\ ocalls[c].pc = "done" =>
                             ocalls[c].val =
                                 decoded(insts[ocalls[c].inst].transforms, ocalls[c].buffer)

\* a get of a file that is too old and too big has failed with both errors and has
\* not read the payload
C21_Witness ==
    \E c \in Gets :
        /\ ocalls[c].pc = "failed" /\ ocalls[c].err = "validation"
        /\ Len(ocalls[c].errors) = 2 /\ ocalls[c].reads = 0

\* C22 as stated: with no failing constraint, set(k, v) followed by get(k) returns a
\* value equal to v, without transforms and with transforms whose decode inverts
\* encode, for every value of the transform's domain, null under a schema included.
C22_SetThenGetReturnsValue ==
    \A c \in Gets :
        ( /\ c > 1 /\ ocalls[c - 1].op = "set" /\ ocalls[c - 1].key = ocalls[c].key
          /\ ocalls[c].pc = "done" ) =>
            ocalls[c].val = ocalls[c - 1].data

Sweeps == {c \in DOMAIN ocalls : ocalls[c].op = "sweep" /\ ocalls[c].counts.listed >= 0}

\* the attributes worker w validated fail a constraint of the storage of call c
WorkerInvalid(c, w) ==
    \E cs \in Range(insts[ocalls[c].inst].constraints) : ~passes(cs, w.attributes, w.at)

\* the caller has called delete for the key
DeletedByCaller(key) ==
    \E d \in DOMAIN ocalls : ocalls[d].op = "delete" /\ ocalls[d].key = key

\* C23: deleteInvalidEntries() of a storage with constraints visits every key that
\* keys() returned: it deletes the keys whose attributes fail a constraint and no
\* others, leaves every key that passes in place, goes on with the other keys when
\* one key fails, and returns counts with ok + deleted + errors = keys listed.
C23_SweepDeletesExactlyInvalid ==
    \A c \in Sweeps :
        LET ws == ocalls[c].workers IN
        /\ Len(ws) = ocalls[c].counts.listed
        /\ \A n \in DOMAIN ws :
              /\ ws[n].pc \in {"delete", "deleted"} => WorkerInvalid(c, ws[n])
              /\ ws[n].pc = "kept" => ~WorkerInvalid(c, ws[n])
              /\ ws[n].pc = "deleted" => ws[n].key \notin DOMAIN objects
              /\ (ws[n].pc = "kept" /\ ~DeletedByCaller(ws[n].key)) =>
                    /\ ws[n].key \in DOMAIN objects
                    /\ objects[ws[n].key].attributes = ws[n].attributes
        /\ ocalls[c].pc = "done" =>
              /\ \A n \in DOMAIN ws : WorkerSettled(ws[n])
              /\ ocalls[c].counts.ok = Cardinality({n \in DOMAIN ws : ws[n].pc = "kept"})
              /\ ocalls[c].counts.deleted =
                    Cardinality({n \in DOMAIN ws : ws[n].pc = "deleted"})
              /\ ocalls[c].counts.ok + ocalls[c].counts.deleted + ocalls[c].counts.errors
                    = ocalls[c].counts.listed

\* a sweep of three files has returned { ok: 1, deleted: 1, errors: [1 error] }: one
\* delete failed, and the two other keys were kept and deleted all the same
C23_Witness ==
    \E c \in Sweeps :
        /\ ocalls[c].pc = "done" /\ ocalls[c].counts.listed = 3
        /\ ocalls[c].counts.ok = 1 /\ ocalls[c].counts.deleted = 1
        /\ ocalls[c].counts.errors = 1
        /\ \E n \in DOMAIN ocalls[c].workers :
              /\ ocalls[c].workers[n].pc = "failed"
              /\ ocalls[c].workers[n].key \in DOMAIN objects

\* what the last with... call returned, against the instance it was called on
DerivedKeepsTheRest ==
    op.name # "" =>
        LET new == insts[op.out[1]]
            old == op.before[op.task]
        IN  /\ Len(insts) = Len(op.before) + 1 /\ op.out[1] = Len(insts)
            /\ new.provider = old.provider
            /\ op.name = "withConstraints" => new.transforms = old.transforms
            /\ op.name # "withConstraints" => new.constraints = old.constraints
            /\ op.name = "withEncoding" => new.transforms = "text"
            /\ op.name = "withSchema" => new.transforms = "json"
            /\ \A j \in DOMAIN op.before : insts[j] = op.before[j]

\* no step changes an instance that exists
InstancesAreReadonly == \A j \in DOMAIN insts : j \in DOMAIN insts' /\ insts'[j] = insts[j]

\* C24: withConstraints, withTransforms, withEncoding and withSchema return a new
\* ObjectStorage that shares the provider of the original and keeps the configuration
\* the method does not set (withConstraints the transforms, the others the
\* constraints), and the provider, constraints and transforms of the original are as
\* before.
C24_DerivationsArePure == []DerivedKeepsTheRest /\ [][InstancesAreReadonly]_vars

\* withConstraints was called on a storage with a schema and constraints: the new
\* storage has the schema and other constraints, the original has its own still
C24_Witness ==
    /\ op.name = "withConstraints"
    /\ insts[op.task].transforms = "json" /\ insts[op.out[1]].transforms = "json"
    /\ insts[op.task].constraints = <<"age">>
    /\ insts[op.out[1]].constraints = <<"small">>

\* the milliseconds of one unit of a duration
UnitMs(unit) ==
    CASE unit = "seconds" -> 1000
      [] unit = "minutes" -> 60000
      [] unit = "hours" -> 3600000
      [] unit = "days" -> 86400000
      [] OTHER -> 1

\* C25: maxAge(duration) accepts an entry iff now - lastModifiedTime < duration in
\* milliseconds, the named units normalized first (seconds x 1000, minutes x 60000,
\* hours x 3600000, days x 86400000): an entry written at T is valid at T + age - 1
\* and invalid at T + age and at T + age + 1.
C25_MaxAgeBoundary ==
    (fargs # <<>> /\ fargs[1] = "maxAge") =>
        LET age == fargs[2].n * UnitMs(fargs[2].unit)
            T == fargs[3]
            time == fargs[4]
        IN  /\ fres[1] <=> (time - T < age)
            /\ time = T + age - 1 => fres[1]
            /\ time \in {T + age, T + age + 1} => ~fres[1]

\* maxAge({ minutes: 2 }) has rejected an entry written at 5 at the time 120005
C25_Witness ==
    /\ fargs = <<"maxAge", Duration("minutes", 2), 5, 120005>>
    /\ fres = <<FALSE>>

\* C26 as stated: cancellation of ensure prevents new work: with the signal aborted
\* when ensure is called, or when the constraints are validated, ensure on a storage
\* with constraints does not invoke compute and does not start a write (stated for
\* the calls that found the key, whose attributes are validated).
C26_AbortedEnsureStartsNoWork ==
    \A c \in DOMAIN ecalls :
        (ecalls[c].found /\ ecalls[c].signalled) =>
            ecalls[c].computes = 0 /\ ecalls[c].sets = 0

\* the value of property key of an object
PropertyOf(obj, key) == obj.s[CHOOSE i \in DOMAIN obj.s : obj.s[i].key = key].value

\* x and y are equal but for the order in which the properties of objects were
\* inserted, at any depth
RECURSIVE SameJson(_, _)
SameJson(x, y) ==
    /\ x.t = y.t
    /\ CASE x.t = "obj" ->
               /\ {x.s[i].key : i \in DOMAIN x.s} = {y.s[i].key : i \in DOMAIN y.s}
               /\ Len(x.s) = Len(y.s)
               /\ \A i \in DOMAIN x.s : SameJson(x.s[i].value, PropertyOf(y, x.s[i].key))
         [] x.t = "arr" ->
               /\ Len(x.s) = Len(y.s)
               /\ \A i \in DOMAIN x.s : SameJson(x.s[i], y.s[i])
         [] OTHER -> x = y

\* C27 as stated: two JSON structures that are equal but for the insertion order of
\* object keys, at any depth, hash to the same output, by the hasher of task keys and
\* by the hasher of the default memoize keys alike; structures that are not equal in
\* that sense, as arrays that differ in the order of their elements, hash differently.
C27_HashIgnoresKeyOrder ==
    (fargs # <<>> /\ fargs[1] = "hash") =>
        /\ (fres[1] = fres[2]) <=> SameJson(fargs[2], fargs[3])
        /\ (fres[3] = fres[4]) <=> SameJson(fargs[2], fargs[3])

\* the part of C27 about the hasher of task keys
TaskHashIgnoresKeyOrder ==
    (fargs # <<>> /\ fargs[1] = "hash") =>
        ((fres[1] = fres[2]) <=> SameJson(fargs[2], fargs[3]))

\* C28 as stated: hash uses the digest algorithm options.algorithm, SHA-256 by
\* default, and the output encoding options.encoding, hex by default, the one
\* independent of the other.
C28_HashOptionsAreIndependent ==
    (fargs # <<>> /\ fargs[1] = "options") =>
        /\ ~fres[1].thrown
        /\ fres[1].algorithm =
              (IF fargs[2].algorithm # "" THEN fargs[2].algorithm ELSE "sha256")
        /\ fres[1].encoding =
              (IF fargs[2].encoding # "" THEN fargs[2].encoding ELSE "hex")

\* the last call was new Task(...)
Constructed == fargs # <<>> /\ fargs[1] = "Task"

\* the constructor throws the error about anonymous functions exactly when no key
\* is given and the function has no name; with a key it returns a task with that key
AnonymousExactlyWithoutKeyAndName ==
    Constructed =>
        /\ (fres[1].error = AnonymousError)
              <=> (fargs[4] = "" /\ trim(fargs[2].name) = "")
        /\ fargs[4] # "" => (fres[1].error = "" /\ fres[1].key = <<fargs[4]>>)

\* a construction with a key leaves the registry as it is
ExplicitKeyKeepsRegistry ==
    (fargs'[1] = "Task" /\ fargs'[4] # "") => nameRegistry' = nameRegistry

\* C29: creating a task fails with the error about anonymous functions exactly when
\* no explicit key that is not empty is given and the function has no name; with an
\* explicit key the creation succeeds for anonymous functions too, and the registry
\* of names is left unchanged.
C29_AnonymousNeedsKey ==
    []AnonymousExactlyWithoutKeyAndName /\ [][ExplicitKeyKeepsRegistry]_vars

\* a function is registered, then an anonymous function got a task with an explicit key
C29_Witness ==
    /\ Constructed
    /\ fargs[2].name = "" /\ fargs[4] = "k"
    /\ fres[1] = [error |-> "", key |-> <<"k">>]
    /\ DOMAIN nameRegistry = {"f"}

\* an anonymous function without a key was refused
AnonymousRefused ==
    /\ Constructed
    /\ fargs[2].name = "" /\ fargs[4] = ""
    /\ fres[1].error = AnonymousError

\* the last call was toposort(ts)
Sorted == fargs # <<>> /\ fargs[1] = "toposort"

\* the keys of the tasks of a list
KeysOf(ts) == {Key(o) : o \in Range(ts)}

\* C30: for every acyclic graph of tasks and every list given to it, the output of
\* toposort holds every key reachable from the list exactly once (tasks of one key
\* are merged), and every dependency stands strictly before the task that depends on
\* it.
C30_ToposortOrdersDependenciesFirst ==
    Sorted =>
        LET sorted == fres[1].sorted
        IN  /\ fres[1].ok
            /\ KeysOf(sorted) = ReachKeys(KeyEdges, KeysOf(fargs[2]))
            /\ \A i, j \in DOMAIN sorted : Key(sorted[i]) = Key(sorted[j]) => i = j
            /\ \A i \in DOMAIN sorted : \A d \in Range(argTasks(sorted[i])) :
                    \E j \in 1..(i - 1) : Key(sorted[j]) = Key(d)

\* a list that names a dependent before its dependency and a key twice was sorted,
\* and the output holds tasks the list did not name
C30_Witness ==
    /\ Sorted
    /\ Len(fargs[2]) > Cardinality(KeysOf(fargs[2]))
    /\ Key(fargs[2][2]) \in DependsOn(Key(fargs[2][1]))
    /\ Len(fres[1].sorted) > Cardinality(KeysOf(fargs[2]))

\* the last call was dependencyLayers(task)
Layered == fargs # <<>> /\ fargs[1] = "dependencyLayers"

\* the keys of the graph of task o: its own and the ones it depends on
GraphKeys(o) == {Key(o)} \cup DependsOn(Key(o))

\* the keys a key depends on directly
DirectKeys(k) == {e[2] : e \in {x \in KeyEdges : x[1] = k}}

\* the indices (from 0) of the layers that hold a task of key k
LayersOf(layers, k) ==
    {l - 1 : l \in {x \in DOMAIN layers : \E i \in DOMAIN layers[x] : Key(layers[x][i]) = k}}

\* the index of the layer of key k
LayerOf(layers, k) == CHOOSE l \in LayersOf(layers, k) : TRUE

\* every key of the graph stands in exactly one layer, once
EachKeyInOneLayer(layers, o) ==
    /\ \A k \in GraphKeys(o) : Cardinality(LayersOf(layers, k)) = 1
    /\ \A l \in DOMAIN layers :
          /\ KeysOf(layers[l]) \subseteq GraphKeys(o)
          /\ \A i, j \in DOMAIN layers[l] :
                Key(layers[l][i]) = Key(layers[l][j]) => i = j

\* C31: dependencyLayers puts every task of the graph of the root in exactly one
\* layer, of index 1 + the largest index of the layers of its direct dependencies and
\* 0 without dependencies; no layer up to the one of the root is empty, the root is
\* alone in the last layer, and no two tasks of one layer depend on one another,
\* directly or not.
C31_LayersPartitionTheGraph ==
    Layered =>
        LET layers == fres[1].layers
            o == fargs[2]
        IN  /\ fres[1].ok
            /\ EachKeyInOneLayer(layers, o)
            /\ \A k \in GraphKeys(o) :
                  LayerOf(layers, k) =
                      (IF DirectKeys(k) = {} THEN 0
                       ELSE 1 + MaxOf({LayerOf(layers, d) : d \in DirectKeys(k)}))
            /\ \A l \in DOMAIN layers : layers[l] # <<>>
            /\ KeysOf(layers[Len(layers)]) = {Key(o)} /\ Len(layers[Len(layers)]) = 1
            /\ \A l \in DOMAIN layers : \A a, b \in KeysOf(layers[l]) :
                  a \notin DependsOn(b)

\* a root with a dependency shared by the root and by another of its dependencies
\* was layered: three layers, the shared dependency in the first
C31_Witness ==
    /\ Layered
    /\ Len(fres[1].layers) = 3
    /\ \E d \in DirectKeys(Key(fargs[2])) :
          /\ LayerOf(fres[1].layers, d) = 0
          /\ \E e \in DirectKeys(Key(fargs[2])) : d \in DirectKeys(e)

\* the largest number of edges on a path of dependencies that starts at key k
RECURSIVE Depth(_)
Depth(k) ==
    IF DirectKeys(k) = {} THEN 0 ELSE 1 + MaxOf({Depth(d) : d \in DirectKeys(k)})

\* no path of dependencies leads from one of the two keys to the other
Unrelated(a, b) == a # b /\ a \notin DependsOn(b) /\ b \notin DependsOn(a)

\* two tasks without a path between them share a layer iff their depths are equal
UnrelatedShareLayerIffSameDepth(layers, o) ==
    \A a, b \in GraphKeys(o) :
        Unrelated(a, b) =>
            ((LayerOf(layers, a) = LayerOf(layers, b)) <=> (Depth(a) = Depth(b)))

\* C32 as stated: two tasks with no path between them are in the same layer iff their
\* largest dependency depths are equal, and the layer index of a task exceeds the
\* layer index of every direct dependency by exactly one.
C32_OneAboveEveryDependency ==
    Layered =>
        LET layers == fres[1].layers
            o == fargs[2]
        IN  /\ UnrelatedShareLayerIffSameDepth(layers, o)
            /\ \A k \in GraphKeys(o) : \A d \in DirectKeys(k) :
                  LayerOf(layers, k) = LayerOf(layers, d) + 1

\* C32 amended: two tasks with no path between them are in the same layer iff their
\* largest dependency depths are equal, and the layer index of a task exceeds the
\* layer index of every direct dependency, the largest of them by exactly one.
C32_OneAboveDeepestDependency ==
    Layered =>
        LET layers == fres[1].layers
            o == fargs[2]
        IN  /\ UnrelatedShareLayerIffSameDepth(layers, o)
            /\ \A k \in GraphKeys(o) :
                  /\ \A d \in DirectKeys(k) : LayerOf(layers, k) > LayerOf(layers, d)
                  /\ DirectKeys(k) # {} =>
                        LayerOf(layers, k) =
                            1 + MaxOf({LayerOf(layers, d) : d \in DirectKeys(k)})

\* a root was layered whose graph holds two unrelated tasks of one depth in one
\* layer, two unrelated tasks of different depths in different layers, and a direct
\* dependency two layers below the root
C32_Witness ==
    /\ Layered
    /\ LET layers == fres[1].layers
           K == GraphKeys(fargs[2])
       IN  /\ \E a, b \in K :
                 Unrelated(a, b) /\ LayerOf(layers, a) = LayerOf(layers, b)
           /\ \E a, b \in K :
                 Unrelated(a, b) /\ Depth(a) # Depth(b)
                     /\ LayerOf(layers, a) # LayerOf(layers, b)
           /\ \E d \in DirectKeys(Key(fargs[2])) :
                 LayerOf(layers, Key(fargs[2])) = LayerOf(layers, d) + 2

\* toposort has thrown, or has returned
SortThrown == fargs # <<>> /\ fargs[1] = "toposort" /\ Sorting.pc = "thrown"
SortReturned == fargs # <<>> /\ fargs[1] = "toposort" /\ Sorting.pc = "done"

\* the graph reachable from the list given to toposort holds a cycle
CycleReachable ==
    \E k \in ReachKeys(KeyEdges, KeysOf(fargs[2])) : k \in DependsOn(k)

\* the step by step run ends as the function computed at once
StepsAgreeWithToposort ==
    (SortThrown \/ SortReturned) =>
        LET st == toposort(fargs[2])
        IN  /\ st.ok = SortReturned
            /\ st.ok => st.sorted = Sorting.sorted
            /\ ~st.ok => (st.from = Sorting.from /\ st.to = Sorting.to)

\* C33: toposort throws 'Cycle detected: X -> Y' only for a real cycle: Y is a direct
\* dependency of X, and Y is X itself or a task that is being visited and that X is a
\* dependency of, directly or not, so that the edge X -> Y closes a cycle; on an
\* acyclic graph, also with a dependency shared by several dependents or pushed on
\* the stack more than once, it does not throw.
C33_CycleErrorOnlyForRealCycle ==
    SortThrown =>
        /\ Sorting.to \in DirectKeys(Sorting.from)
        /\ Sorting.to \in Sorting.visiting
        /\ Sorting.to = Sorting.from \/ Sorting.from \in DependsOn(Sorting.to)
        /\ CycleReachable

\* toposort returned for an acyclic graph in which it pushed a key a second time on
\* the stack, above the first
C33_Witness ==
    /\ SortReturned
    /\ ~CycleReachable
    /\ LET root == tasks[fargs[2][1]]
       IN  /\ Len(root.args) = 2
           /\ root.args[1] \in Range(tasks[root.args[2].v].args)

\* toposort threw for an edge from a task back to the first of the list
CycleThrown ==
    /\ SortThrown
    /\ Sorting.from # Sorting.to
    /\ Sorting.to = Key(fargs[2][1])

\* toposort is over
SortEnded == SortThrown \/ SortReturned

\* when toposort returns, its stack is empty and every key reachable from the list
\* is completed
ReturnsWithAllCompleted ==
    SortReturned =>
        /\ Sorting.stack = <<>>
        /\ Sorting.completed = ReachKeys(KeyEdges, KeysOf(fargs[2]))

\* C34: toposort terminates on every finite input: its stack is emptied in the end
\* with every reachable key completed, or the cycle error is thrown; it does not loop
\* forever, also when one key is pushed on the stack several times.
C34_ToposortTerminates == <>SortEnded /\ []ReturnsWithAllCompleted

\* toposort returned for a list of two tasks and a graph in which the second
\* dependency of the first task depends on the first one, which is pushed twice
C34_Witness ==
    /\ SortReturned
    /\ fargs[2] = <<1, 2>>
    /\ LET root == tasks[1]
       IN  /\ Len(root.args) = 2
           /\ root.args[1] \in Range(tasks[root.args[2].v].args)

\* the calls of result() by the caller that missed the root's key, ran the layers and
\* returned a value
MissedAndReturned ==
    {f \in TopCalls : /\ frames[f].kind = "result" /\ frames[f].pc = "done"
                      /\ frames[f].layers # <<>>}

\* the storage of task o holds a value under the key of o
StoredInOwnStorage(o) == tstore[o] # 0 /\ has(stores, tstore[o], Key(o))

\* C35 as stated: after result() returned a value on a miss of the root's key, every
\* task object of the root's transitive dependencies, and the root, has a value under
\* its key in its own storage.
C35_EveryTaskStoredInOwnStorage ==
    \A f \in MissedAndReturned :
        \A o \in ReachableTasks(frames[f].task) : StoredInOwnStorage(o)

\* the task objects result() f called persist on: the tasks of its layers
LayerTasks(f) == UNION {Range(frames[f].layers[l]) : l \in DOMAIN frames[f].layers}

\* C35: after result() returned a value on a miss of the root's key, the layers hold
\* one task object for every key of the root's transitive dependencies and for the
\* root's key, and every one of these objects has a value under its key in its own
\* storage; this includes the dependencies whose dependents were in their storages
\* before the call.
C35_EveryLayerTaskStoredInOwnStorage ==
    \A f \in MissedAndReturned :
        /\ \A o \in LayerTasks(f) : StoredInOwnStorage(o)
        /\ \A o \in ReachableTasks(frames[f].task) :
              Cardinality({x \in LayerTasks(f) : Key(x) = Key(o)}) = 1

\* result() missed the root and returned; a dependent of a dependency answered from
\* its storage, and the dependency, which no storage held before the call, is stored
C35_Witness ==
    \E f \in MissedAndReturned :
        \E p \in Persists, q \in Persists :
            /\ frames[p].top = f /\ frames[q].top = f
            /\ frames[p].cached /\ frames[p].pc = "done"
            /\ frames[q].task \in Range(argTasks(frames[p].task))
            /\ frames[q].wrote /\ frames[q].pc = "done"
            /\ StoredInOwnStorage(frames[q].task)

\* call c of ensure rejected with the error fn threw
EnsureComputeFailed(c) == ecalls[c].pc = "failed" /\ ecalls[c].err = "fn"

\* the bytes the provider holds under every key
ProviderBytes == [k \in DOMAIN pstore |-> pstore[k].data]

\* a step after which call c is the caller's last call and has not called set
BeforeSet(c) == c = Len(ecalls') /\ ecalls'[c].sets = 0

\* C36: when fn fails inside ensure(key, fn), ensure fails with the error of fn and the
\* call has written nothing to the provider: no step of a call that has not reached
\* set changes the keys or the bytes of the provider, so a missing key stays missing
\* and an entry that was invalid keeps the bytes it had.
C36_FailedComputeWritesNothing ==
    /\ [](\A c \in DOMAIN ecalls :
            EnsureComputeFailed(c) => ecalls[c].sets = 0 /\ ~ecalls[c].wrote)
    /\ [][\A c \in DOMAIN ecalls :
            /\ (ecalls[c].pc = "compute" /\ ecalls'[c].pc = "failed") =>
                  EnsureComputeFailed(c)'
            /\ BeforeSet(c) => ProviderBytes' = ProviderBytes]_vars

\* ensure found an entry that was no longer valid, fn failed, ensure failed with its
\* error and the provider still holds the bytes of the earlier run under the key
C36_Witness ==
    \E c \in DOMAIN ecalls :
        /\ EnsureComputeFailed(c)
        /\ ecalls[c].found /\ ~ecalls[c].valid
        /\ ecalls[c].key \in DOMAIN pstore
        /\ pstore[ecalls[c].key].data = ensureValue(ecalls[c].key, 0)

\* worker n of sweep c deletes its key in this step
SweepDeletes(c, n) ==
    /\ ocalls[c].op = "sweep" /\ n \in DOMAIN ocalls[c].workers
    /\ ocalls[c].workers[n].pc = "delete"
    /\ ocalls'[c].workers[n].pc = "deleted"

\* the entry the provider holds under the key passes the constraints of instance i
ValidNow(i, key) ==
    checkConstraints(insts[i].constraints, objects[key].attributes, now) = <<>>

\* C37 as stated: deleteInvalidEntries never deletes an entry that is valid at the
\* moment it is deleted, also when a set() of the same key runs between the sweep's
\* validation of the key and its delete.
C37_SweepDeletesOnlyInvalidEntries ==
    [][\A c \in DOMAIN ocalls : \A n \in 1..3 :
          SweepDeletes(c, n) => ~ValidNow(ocalls[c].inst, ocalls[c].workers[n].key)]_vars

====
